---- MODULE Spec2Model ----
(***************************************************************************)
(* Model of SippApp: the Django models (models.py), the model forms and    *)
(* inline formsets (forms.py), the class-based views (views.py) and the    *)
(* admin registrations (admin.py).                                         *)
(*                                                                         *)
(* A table is a function whose DOMAIN is the set of primary keys of its    *)
(* rows.  A DecimalField(decimal_places=2) column holds its value as an    *)
(* integer number of hundredths; a Python Decimal in flight is a record    *)
(* [coef, exp] meaning coef * 10^exp.  An optional input (a blank form     *)
(* field, an attribute left at None) is a sequence: <<>> for None and      *)
(* <<v>> for the value v.                                                  *)
(***************************************************************************)
EXTENDS Integers, Sequences, FiniteSets, TLC

VARIABLES
    clientes,          \* Cliente table
    empresas,          \* set of pks of EmpresaProveedora rows
    categorias,        \* set of pks of CategoriaProducto rows
    productos,         \* ProductoHardware table
    servicios,         \* ServicioInformatico table
    pedidos,           \* Pedido table
    items_productos,   \* ItemProductoPedido table
    items_servicios,   \* ItemServicioPedido table
    caracteristicas,   \* CaracteristicaProductoHardware table
    tipos_servicio,    \* TipoServicio table
    now,               \* timezone.now(), in ticks of the clock
    resp               \* the last request handled and its outcome

vars == <<clientes, empresas, categorias, productos, servicios, pedidos,
          items_productos, items_servicios, caracteristicas, tipos_servicio, now, resp>>

store == <<clientes, empresas, categorias, productos, servicios, pedidos,
           items_productos, items_servicios, caracteristicas, tipos_servicio>>

-----------------------------------------------------------------------------
(* Bounds of the model *)

MaxProductos == 2
MaxPedidos == 1
MaxItems == 2
MaxNow == 2

MaxCaracteristicas == 2

-----------------------------------------------------------------------------
(* Generic helpers *)

NULL == 0

None == <<>>

Some(v) == <<v>>

IsNone(o) == o = <<>>

Val(o) == o[1]

\* Python truthiness of an optional number: None and 0 are both falsy.
Truthy(o) == o # <<>> /\ o[1] # 0

Insert(table, pk, row) == [k \in DOMAIN table \cup {pk} |-> IF k = pk THEN row ELSE table[k]]

Delete(table, pks) == [k \in DOMAIN table \ pks |-> table[k]]

\* The primary key the database gives the next inserted row.
NextPk(table, ids) == CHOOSE k \in ids \ DOMAIN table : \A j \in ids \ DOMAIN table : k <= j

-----------------------------------------------------------------------------
(* models.py: ProductoHardware *)

TIPO_PRODUCTO_CHOICES ==
    [switch |-> "Switch", disco_duro |-> "Disco Duro", ram |-> "RAM",
     impresora |-> "Impresora", teclado |-> "Teclado", mouse |-> "Mouse",
     ordenador |-> "Ordenador", laptop |-> "Laptop", otros |-> "Otros"]

\* A new, unsaved ProductoHardware() instance: the field defaults.  precio has
\* no default (None); it is written 0 here and is never read before a form
\* assigns it, because precio is a required form field.
ProductoHardware_new ==
    [nombre |-> "", tipo |-> "otros", tipo_personalizado |-> "", precio |-> 0,
     empresa_proveedora |-> NULL, categoria |-> NULL, activo |-> TRUE]

\* A clean() that raises nothing.
ProductoHardware_clean_SinValidar(inst) == {}

\* ProductoHardware.clean: the fields the raised ValidationError names.
ProductoHardware_clean(inst) ==
    IF inst.tipo = "otros" /\ inst.tipo_personalizado = ""
    THEN {"tipo_personalizado"}
    ELSE {}

\* A tipo_seleccion that always shows the label of tipo.
tipo_seleccion_SinPersonalizado(inst) == TIPO_PRODUCTO_CHOICES[inst.tipo]

\* ProductoHardware.tipo_seleccion
tipo_seleccion(inst) ==
    IF inst.tipo = "otros" /\ inst.tipo_personalizado # ""
    THEN inst.tipo_personalizado
    ELSE TIPO_PRODUCTO_CHOICES[inst.tipo]

\* Model.clean_fields for ProductoHardware: precio carries MinValueValidator(0).
ProductoHardware_clean_fields(inst, exclude) ==
    IF "precio" \notin exclude /\ inst.precio < 0 THEN {"precio"} ELSE {}

\* Model.validate_unique for Meta.unique_together = ['nombre', 'empresa_proveedora'].
\* Django skips a unique check one of whose values is None, and the database
\* treats NULLs as distinct, so a product with no supplier is never a duplicate.
ProductoHardware_validate_unique(inst, pk, exclude) ==
    IF /\ "nombre" \notin exclude
       /\ "empresa_proveedora" \notin exclude
       /\ inst.empresa_proveedora # NULL
       /\ \E k \in DOMAIN productos \ {pk} :
              /\ productos[k].nombre = inst.nombre
              /\ productos[k].empresa_proveedora = inst.empresa_proveedora
    THEN {"__all__"}
    ELSE {}

-----------------------------------------------------------------------------
(* forms.py: ProductoHardwareForm *)

\* cleaned_data.get(name)
Get(cleaned_data, name) ==
    IF name \in DOMAIN cleaned_data THEN Some(cleaned_data[name]) ELSE None

\* Python truthiness of cleaned_data.get(<a text field>).
TruthyStr(o) == o # <<>> /\ o[1] # ""

\* ProductoHardwareForm.clean_precio: TRUE when it raises ValidationError.
ProductoHardwareForm_clean_precio(precio) ==
    Truthy(precio) /\ Val(precio) <= 0

\* Form._clean_fields over the submitted data: the cleaned_data of the fields
\* that pass and the names of those that fail.  nombre, tipo and precio are
\* required; tipo must be one of the choices; a supplier must exist.
ProductoHardwareForm_clean_fields(data, with_clean_precio) ==
    LET bad == (IF data.nombre = "" THEN {"nombre"} ELSE {})
               \cup (IF data.tipo \notin DOMAIN TIPO_PRODUCTO_CHOICES THEN {"tipo"} ELSE {})
               \cup (IF IsNone(data.precio) THEN {"precio"} ELSE {})
               \cup (IF with_clean_precio /\ ProductoHardwareForm_clean_precio(data.precio)
                     THEN {"precio"} ELSE {})
               \cup (IF data.empresa_proveedora # NULL /\ data.empresa_proveedora \notin empresas
                     THEN {"empresa_proveedora"} ELSE {})
               \cup (IF data.categoria # NULL /\ data.categoria \notin categorias
                     THEN {"categoria"} ELSE {})
        ok == {"nombre", "tipo", "tipo_personalizado", "precio",
               "empresa_proveedora", "categoria", "activo"} \ bad
    IN  [errors |-> bad,
         cleaned_data |-> [f \in ok |-> IF f = "precio" THEN Val(data.precio) ELSE data[f]]]

\* ProductoHardwareForm.clean
ProductoHardwareForm_clean(cleaned_data) ==
    LET tipo == Get(cleaned_data, "tipo")
        tipo_personalizado == Get(cleaned_data, "tipo_personalizado")
    IN  IF tipo = Some("otros") /\ ~TruthyStr(tipo_personalizado)
        THEN \* add_error drops the field from cleaned_data
             [errors |-> {"tipo_personalizado"},
              cleaned_data |-> [f \in DOMAIN cleaned_data \ {"tipo_personalizado"} |-> cleaned_data[f]]]
        ELSE IF tipo # Some("otros") /\ TruthyStr(tipo_personalizado)
        THEN [errors |-> {},
              cleaned_data |-> [cleaned_data EXCEPT !.tipo_personalizado = ""]]
        ELSE [errors |-> {}, cleaned_data |-> cleaned_data]

\* The admin's default ModelForm has no clean() of its own.
ModelForm_clean(cleaned_data) == [errors |-> {}, cleaned_data |-> cleaned_data]

\* construct_instance: the cleaned values are assigned to the instance.
construct_instance(instance, cleaned_data) ==
    [f \in DOMAIN instance |-> IF f \in DOMAIN cleaned_data THEN cleaned_data[f] ELSE instance[f]]

\* BaseModelForm.full_clean for a ProductoHardware model form on the row pk
\* (NULL for a new one): _clean_fields, _clean_form, then _post_clean
\* (construct_instance, Model.full_clean without the failed fields,
\* validate_unique).  The result is the set of fields in form.errors and the
\* instance form.save() would write.
ProductoModelForm_full_clean(data, pk, own_form) ==
    LET fields == ProductoHardwareForm_clean_fields(data, own_form)
        form == IF own_form THEN ProductoHardwareForm_clean(fields.cleaned_data)
                ELSE ModelForm_clean(fields.cleaned_data)
        errors2 == fields.errors \cup form.errors
        base == IF pk = NULL THEN ProductoHardware_new ELSE productos[pk]
        instance == construct_instance(base, form.cleaned_data)
        model_errors == ProductoHardware_clean_fields(instance, errors2)
                        \cup ProductoHardware_clean(instance)
        errors3 == errors2 \cup model_errors
        unique == ProductoHardware_validate_unique(instance, pk, errors3)
    IN  [errors |-> errors3 \cup unique, instance |-> instance]

ProductoHardwareForm_full_clean(data, pk) == ProductoModelForm_full_clean(data, pk, TRUE)

ProductoHardwareAdminForm_full_clean(data, pk) == ProductoModelForm_full_clean(data, pk, FALSE)

-----------------------------------------------------------------------------
(* views.py and admin.py: creating and updating a ProductoHardware *)

Response(op, pk, status, errors, data) ==
    [op |-> op, pk |-> pk, status |-> status, errors |-> errors, data |-> data]

\* What an invalid caracteristicas formset adds to the errors shown.
FormsetErrors(caracteristicas_valid) ==
    IF caracteristicas_valid THEN {} ELSE {"caracteristicas"}

\* ProductoHardwareCreateView: post() validates the form; form_valid() saves
\* the product when the caracteristicas formset is valid too.  The formset is
\* submitted with no rows; caracteristicas_valid is the outcome of its is_valid().
ProductoHardwareCreateView(data, caracteristicas_valid) ==
    LET form == ProductoHardwareForm_full_clean(data, NULL)
    IN  IF form.errors # {} \/ ~caracteristicas_valid
        THEN /\ resp' = Response("producto_create", NULL, "invalid",
                              form.errors \cup FormsetErrors(caracteristicas_valid), data)
             /\ UNCHANGED <<store, now>>
        ELSE /\ Cardinality(DOMAIN productos) < MaxProductos
             /\ LET pk == NextPk(productos, 1..MaxProductos)
                IN  /\ productos' = Insert(productos, pk, form.instance)
                    /\ resp' = Response("producto_create", pk, "ok", {}, data)
             /\ UNCHANGED <<now, categorias, caracteristicas, tipos_servicio,
                            clientes, empresas, servicios, pedidos,
                            items_productos, items_servicios>>

\* ProductoHardwareUpdateView: get_object() is a 404 for an unknown pk.
ProductoHardwareUpdateView(pk, data, caracteristicas_valid) ==
    IF pk \notin DOMAIN productos
    THEN /\ resp' = Response("producto_update", pk, "not_found", {}, data)
         /\ UNCHANGED <<store, now>>
    ELSE LET form == ProductoHardwareForm_full_clean(data, pk)
         IN  IF form.errors # {} \/ ~caracteristicas_valid
             THEN /\ resp' = Response("producto_update", pk, "invalid",
                                   form.errors \cup FormsetErrors(caracteristicas_valid), data)
                  /\ UNCHANGED <<store, now>>
             ELSE /\ productos' = Insert(productos, pk, form.instance)
                  /\ resp' = Response("producto_update", pk, "ok", {}, data)
                  /\ UNCHANGED <<now, categorias, caracteristicas, tipos_servicio,
                                 clientes, empresas, servicios, pedidos,
                                 items_productos, items_servicios>>

\* ProductoHardwareAdmin, add view: the default ModelForm, then obj.save().
ProductoHardwareAdmin_add(data) ==
    LET form == ProductoHardwareAdminForm_full_clean(data, NULL)
    IN  IF form.errors # {}
        THEN /\ resp' = Response("admin_producto_add", NULL, "invalid", form.errors, data)
             /\ UNCHANGED <<store, now>>
        ELSE /\ Cardinality(DOMAIN productos) < MaxProductos
             /\ LET pk == NextPk(productos, 1..MaxProductos)
                IN  /\ productos' = Insert(productos, pk, form.instance)
                    /\ resp' = Response("admin_producto_add", pk, "ok", {}, data)
             /\ UNCHANGED <<now, categorias, caracteristicas, tipos_servicio,
                            clientes, empresas, servicios, pedidos,
                            items_productos, items_servicios>>

\* ProductoHardwareAdmin, change view.
ProductoHardwareAdmin_change(pk, data) ==
    /\ pk \in DOMAIN productos
    /\ LET form == ProductoHardwareAdminForm_full_clean(data, pk)
       IN  IF form.errors # {}
           THEN /\ resp' = Response("admin_producto_change", pk, "invalid", form.errors, data)
                /\ UNCHANGED <<store, now>>
           ELSE /\ productos' = Insert(productos, pk, form.instance)
                /\ resp' = Response("admin_producto_change", pk, "ok", {}, data)
                /\ UNCHANGED <<now, categorias, caracteristicas, tipos_servicio,
                               clientes, empresas, servicios, pedidos,
                               items_productos, items_servicios>>

-----------------------------------------------------------------------------
(* The product catalogue: every way the program writes a ProductoHardware *)

ClienteIds == {1}

\* The Cliente rows of the initial states: a budget that expires on day 1.
ClientesIniciales == [i \in ClienteIds |-> [fecha_vencimiento_presupuesto |-> 1]]

EmpresaIds == {1}

NoResponse == Response("none", NULL, "ok", {}, <<>>)

\* Submissions that vary the type and the custom type of a product.
ProductoData ==
    [nombre : {"A"}, tipo : {"laptop", "otros"}, tipo_personalizado : {"", "x"},
     precio : {Some(500)}, empresa_proveedora : {NULL, 1},
     categoria : {NULL}, activo : {TRUE}]

\* Submissions that vary the name and the supplier of a product.
ProductoNombreData ==
    [nombre : {"A", "B"}, tipo : {"laptop"}, tipo_personalizado : {""},
     precio : {Some(500)}, empresa_proveedora : {NULL, 1},
     categoria : {NULL}, activo : {TRUE}]

InitProductos ==
    /\ clientes = ClientesIniciales
    /\ empresas = EmpresaIds
    /\ categorias = {}
    /\ productos = <<>>
    /\ servicios = <<>>
    /\ pedidos = <<>>
    /\ items_productos = <<>>
    /\ items_servicios = <<>>
    /\ caracteristicas = <<>>
    /\ tipos_servicio = <<>>
    /\ now = 0
    /\ resp = NoResponse

ViewProductoCreate(D) ==
    \E data \in D, cv \in BOOLEAN : ProductoHardwareCreateView(data, cv)

ViewProductoUpdate(D) ==
    \E pk \in 1..MaxProductos, data \in D, cv \in BOOLEAN :
        ProductoHardwareUpdateView(pk, data, cv)

AdminProductoAdd(D) == \E data \in D : ProductoHardwareAdmin_add(data)

AdminProductoChange(D) ==
    \E pk \in 1..MaxProductos, data \in D : ProductoHardwareAdmin_change(pk, data)

NextProductos ==
    \/ ViewProductoCreate(ProductoData)
    \/ ViewProductoUpdate(ProductoData)
    \/ AdminProductoAdd(ProductoData)
    \/ AdminProductoChange(ProductoData)

SpecProductos == InitProductos /\ [][NextProductos]_vars

NextNombres ==
    \/ ViewProductoCreate(ProductoNombreData)
    \/ ViewProductoUpdate(ProductoNombreData)
    \/ AdminProductoAdd(ProductoNombreData)
    \/ AdminProductoChange(ProductoNombreData)

SpecNombres == InitProductos /\ [][NextNombres]_vars

-----------------------------------------------------------------------------
(* Python Decimal arithmetic, as the subtotal and total properties use it *)

Dec(coef, exp) == [coef |-> coef, exp |-> exp]

\* An int operand is converted to Decimal(n): exponent 0.
DecFromInt(n) == Dec(n, 0)

\* A DecimalField(decimal_places=2) value read from its column.
DecFromField(hundredths) == Dec(hundredths, -2)

RECURSIVE Pow10(_)
Pow10(n) == IF n <= 0 THEN 1 ELSE 10 * Pow10(n - 1)

\* Decimal.__mul__: coefficients multiply, exponents add.
DecMul(a, b) == Dec(a.coef * b.coef, a.exp + b.exp)

\* Decimal.__add__: the operands are aligned to the smaller exponent.
DecAdd(a, b) ==
    LET e == IF a.exp < b.exp THEN a.exp ELSE b.exp
    IN  Dec(a.coef * Pow10(a.exp - e) + b.coef * Pow10(b.exp - e), e)

\* The value of a Decimal in hundredths (exact for exponents >= -2).
DecHundredths(d) == d.coef * Pow10(d.exp + 2)

\* sum(<generator>) over the rows S, f[x] being the term of row x: starts at
\* the int 0 and adds each term.
RECURSIVE DecSum(_, _)
DecSum(S, f) ==
    IF S = {} THEN DecFromInt(0)
    ELSE LET x == CHOOSE y \in S : TRUE
         IN  DecAdd(DecSum(S \ {x}, f), f[x])

-----------------------------------------------------------------------------
(* models.py: Pedido, ItemProductoPedido, ItemServicioPedido *)

ESTADO_PEDIDO_CHOICES ==
    [pendiente |-> "Pendiente", confirmado |-> "Confirmado", en_proceso |-> "En Proceso",
     completado |-> "Completado", cancelado |-> "Cancelado", otros |-> "Otros"]

\* A subtotal on the current precio of the product or service instead of the
\* stored precio_unitario.
subtotal_PrecioActual(item) ==
    DecMul(DecFromInt(item.cantidad),
           DecFromField(IF "producto" \in DOMAIN item THEN productos[item.producto].precio
                        ELSE servicios[item.servicio].precio))

\* A subtotal on the whole units of precio_unitario, as int(precio_unitario)
\* gives.
subtotal_Truncado(item) == DecMul(DecFromInt(item.cantidad), DecFromInt(item.precio_unitario \div 100))

\* ItemProductoPedido.subtotal / ItemServicioPedido.subtotal
subtotal(item) == DecMul(DecFromInt(item.cantidad), DecFromField(item.precio_unitario))

\* pedido.items_productos.all() / pedido.items_servicios.all(): primary keys
RelatedItems(table, pedido) == {i \in DOMAIN table : table[i].pedido = pedido}

\* A total that leaves the service line items out.
total_pedido_SinServicios(pedido) ==
    DecSum(RelatedItems(items_productos, pedido),
           [i \in DOMAIN items_productos |-> subtotal(items_productos[i])])

\* Pedido.total_pedido
total_pedido(pedido) ==
    LET total_productos == DecSum(RelatedItems(items_productos, pedido),
                                  [i \in DOMAIN items_productos |-> subtotal(items_productos[i])])
        total_servicios == DecSum(RelatedItems(items_servicios, pedido),
                                  [i \in DOMAIN items_servicios |-> subtotal(items_servicios[i])])
    IN  DecAdd(total_productos, total_servicios)

\* A save that leaves an unset precio_unitario at 0 instead of copying the
\* current precio.
ItemPedido_save_precio_SinCopia(precio_unitario, precio_actual) ==
    IF IsNone(precio_unitario) THEN 0 ELSE Val(precio_unitario)

\* The body of ItemProductoPedido.save and ItemServicioPedido.save before
\* super().save(): a falsy precio_unitario (None or 0) is replaced by the
\* current precio of the referenced product or service.
ItemPedido_save_precio(precio_unitario, precio_actual) ==
    IF ~Truthy(precio_unitario) THEN precio_actual ELSE Val(precio_unitario)

\* ItemProductoPedido.save: the row written for the instance.
ItemProductoPedido_save(instance) ==
    [pedido |-> instance.pedido, producto |-> instance.producto, cantidad |-> instance.cantidad,
     precio_unitario |-> ItemPedido_save_precio(instance.precio_unitario,
                                                productos[instance.producto].precio)]

\* ItemServicioPedido.save: the row written for the instance.
ItemServicioPedido_save(instance) ==
    [pedido |-> instance.pedido, servicio |-> instance.servicio, cantidad |-> instance.cantidad,
     precio_unitario |-> ItemPedido_save_precio(instance.precio_unitario,
                                                servicios[instance.servicio].precio)]

-----------------------------------------------------------------------------
(* forms.py: PedidoForm, ItemProductoPedidoForm, ItemServicioPedidoForm and   *)
(* their inline formsets.  kind is "producto" or "servicio".                  *)

ItemIds == 1..MaxItems

ItemTable(kind) == IF kind = "producto" THEN items_productos ELSE items_servicios

\* The product or service a line-item row refers to.
RefOf(kind, row) == IF kind = "producto" THEN row.producto ELSE row.servicio

\* A producto / servicio field over all the rows.
ItemPedidoForm_queryset_Todos(kind) ==
    IF kind = "producto" THEN DOMAIN productos ELSE DOMAIN servicios

\* ItemProductoPedidoForm.__init__ / ItemServicioPedidoForm.__init__: the
\* queryset of the producto / servicio field holds the active rows only.
ItemPedidoForm_queryset(kind) ==
    IF kind = "producto"
    THEN {k \in DOMAIN productos : productos[k].activo}
    ELSE {k \in DOMAIN servicios : servicios[k].activo}

\* clean_cantidad of both item forms: TRUE when it raises ValidationError.
ItemPedidoForm_clean_cantidad(cantidad) == cantidad # 0 /\ cantidad < 1

\* A cantidad column without MinValueValidator(1).
cantidad_validators_SinMinimo(cantidad) == cantidad < 0

\* The cantidad column: PositiveIntegerField (form min_value 0) with
\* MinValueValidator(1); TRUE when the value is rejected.
cantidad_validators(cantidad) == cantidad < 0 \/ cantidad < 1

\* PedidoForm: cliente must be an existing Cliente, estado one of the choices.
PedidoForm_errors(data) ==
    (IF data.cliente \notin DOMAIN clientes THEN {"cliente"} ELSE {})
    \cup (IF data.estado \notin DOMAIN ESTADO_PEDIDO_CHOICES THEN {"estado"} ELSE {})

\* The forms of an inline formset bound to the order pedido (NULL in the
\* create view): one initial form per line item of the order, holding the
\* stored values unless the request edits it, and the extra forms the
\* request fills in.  A form is [id, n, ref, cantidad, precio_unitario, DELETE],
\* n being 0 for an initial form and the position of an extra form.
FormsetForms(kind, pedido, input) ==
    LET table == ItemTable(kind)
        initial == {[id |-> i, n |-> 0,
                     ref |-> IF input.edit # None /\ Val(input.edit).id = i
                             THEN Val(input.edit).ref ELSE RefOf(kind, table[i]),
                     cantidad |-> IF input.edit # None /\ Val(input.edit).id = i
                                  THEN Val(input.edit).cantidad ELSE table[i].cantidad,
                     precio_unitario |-> IF input.edit # None /\ Val(input.edit).id = i
                                         THEN Val(input.edit).precio_unitario
                                         ELSE Some(table[i].precio_unitario),
                     DELETE |-> input.edit # None /\ Val(input.edit).id = i
                                /\ Val(input.edit).DELETE]
                    : i \in RelatedItems(table, pedido)}
        extra == IF input.extra = None THEN {}
                 ELSE {[id |-> NULL, n |-> 1,
                        ref |-> Val(input.extra).ref,
                        cantidad |-> Val(input.extra).cantidad,
                        precio_unitario |-> Val(input.extra).precio_unitario,
                        DELETE |-> FALSE]}
        extra2 == IF input.extra2 = None THEN {}
                  ELSE {[id |-> NULL, n |-> 2,
                         ref |-> Val(input.extra2).ref,
                         cantidad |-> Val(input.extra2).cantidad,
                         precio_unitario |-> Val(input.extra2).precio_unitario,
                         DELETE |-> FALSE]}
    IN  initial \cup extra \cup extra2

\* form.has_changed() for an initial form.
has_changed(kind, form) ==
    LET row == ItemTable(kind)[form.id]
    IN  \/ form.ref # RefOf(kind, row)
        \/ form.cantidad # row.cantidad
        \/ form.precio_unitario # Some(row.precio_unitario)

\* The errors of one item form: field cleaning, the model validators, and
\* validate_unique for unique_together (pedido, producto|servicio), which
\* Django skips while the order has no primary key.
ItemPedidoForm_errors(kind, pedido, form) ==
    LET table == ItemTable(kind)
        fields == (IF form.ref \notin ItemPedidoForm_queryset(kind)
                   THEN {IF kind = "producto" THEN "producto" ELSE "servicio"} ELSE {})
                  \cup (IF \/ ItemPedidoForm_clean_cantidad(form.cantidad)
                           \/ cantidad_validators(form.cantidad)
                        THEN {"cantidad"} ELSE {})
                  \cup (IF IsNone(form.precio_unitario) THEN {"precio_unitario"} ELSE {})
        unique == IF /\ pedido # NULL
                     /\ form.ref \in ItemPedidoForm_queryset(kind)
                     /\ \E k \in DOMAIN table \ {form.id} :
                            table[k].pedido = pedido /\ RefOf(kind, table[k]) = form.ref
                  THEN {"__all__"} ELSE {}
    IN  fields \cup unique

\* An is_valid() that does not compare the forms of the formset with each
\* other.
Formset_errors_SinUnicidad(kind, pedido, forms) ==
    UNION {ItemPedidoForm_errors(kind, pedido, f) : f \in {g \in forms : ~g.DELETE}}

\* formset.is_valid(): the errors of the forms not marked for deletion, and
\* BaseModelFormSet.validate_unique over the valid ones.
Formset_errors(kind, pedido, forms) ==
    LET live == {f \in forms : ~f.DELETE}
        valid == {f \in live : ItemPedidoForm_errors(kind, pedido, f) = {}}
        form_errors == UNION {ItemPedidoForm_errors(kind, pedido, f) : f \in live}
        duplicates == \E f, g \in valid : f # g /\ f.ref = g.ref
    IN  form_errors \cup (IF duplicates THEN {"__all__"} ELSE {})

\* The instance a valid form saves.
FormInstance(kind, pedido, form) ==
    IF kind = "producto"
    THEN ItemProductoPedido_save([pedido |-> pedido, producto |-> form.ref,
                                  cantidad |-> form.cantidad,
                                  precio_unitario |-> form.precio_unitario])
    ELSE ItemServicioPedido_save([pedido |-> pedido, servicio |-> form.ref,
                                  cantidad |-> form.cantidad,
                                  precio_unitario |-> form.precio_unitario])

\* The forms formset.save() writes: deletions, changed initial forms and
\* filled-in extra forms.
Formset_writes(kind, forms) ==
    {f \in forms : IF f.id = NULL THEN ~f.DELETE ELSE (f.DELETE \/ has_changed(kind, f))}

\* formset.save(): save_existing_objects deletes the rows marked DELETE and
\* saves the changed ones; save_new_objects saves the extra forms in their
\* order.  The result is the item table afterwards.
Formset_save(kind, pedido, forms) ==
    LET table == ItemTable(kind)
        deleted == {f.id : f \in {g \in forms : g.id # NULL /\ g.DELETE}}
        changed == {f \in forms : f.id # NULL /\ ~f.DELETE /\ has_changed(kind, f)}
        new == {f \in forms : f.id = NULL /\ ~f.DELETE}
        kept == [i \in DOMAIN table \ deleted |->
                    IF \E f \in changed : f.id = i
                    THEN FormInstance(kind, pedido, CHOOSE f \in changed : f.id = i)
                    ELSE table[i]]
        first == {f \in new : \A g \in new : f.n <= g.n}
        pk1 == NextPk(table, ItemIds)
        saved1 == IF new = {} THEN kept
                  ELSE Insert(kept, pk1, FormInstance(kind, pedido, CHOOSE f \in first : TRUE))
    IN  IF new \ first = {} THEN saved1
        ELSE Insert(saved1, NextPk(Insert(table, pk1, <<>>), ItemIds),
                    FormInstance(kind, pedido, CHOOSE f \in new \ first : TRUE))

\* The database has a primary key left for what formset.save() inserts.
Formset_room(kind, forms) ==
    Cardinality({f \in forms : f.id = NULL /\ ~f.DELETE})
        <= Cardinality(ItemIds \ DOMAIN ItemTable(kind))

-----------------------------------------------------------------------------
(* forms.py and views.py: ServicioInformatico *)

UNIDAD_DURACION_CHOICES == [horas |-> "Horas", dias |-> "Días", meses |-> "Meses"]

\* ServicioInformaticoForm.clean_precio: TRUE when it raises ValidationError.
ServicioInformaticoForm_clean_precio(precio) ==
    Truthy(precio) /\ Val(precio) <= 0

\* ServicioInformaticoForm.clean_duracion: TRUE when it raises ValidationError.
ServicioInformaticoForm_clean_duracion(duracion) ==
    duracion # 0 /\ duracion <= 0

\* BaseModelForm.full_clean for ServicioInformaticoForm on the row pk (NULL
\* for a new one).  duracion is a PositiveIntegerField (form min_value 0),
\* precio carries MinValueValidator(0), the supplier is required, and
\* (nombre, empresa_proveedora) is unique_together.
ServicioInformaticoForm_full_clean(data, pk) ==
    LET bad == (IF data.nombre = "" THEN {"nombre"} ELSE {})
               \cup (IF data.duracion < 0 \/ ServicioInformaticoForm_clean_duracion(data.duracion)
                     THEN {"duracion"} ELSE {})
               \cup (IF data.unidad_duracion \notin DOMAIN UNIDAD_DURACION_CHOICES
                     THEN {"unidad_duracion"} ELSE {})
               \cup (IF \/ IsNone(data.precio)
                        \/ ServicioInformaticoForm_clean_precio(data.precio)
                        \/ Val(data.precio) < 0
                     THEN {"precio"} ELSE {})
               \cup (IF data.empresa_proveedora \notin empresas
                     THEN {"empresa_proveedora"} ELSE {})
        unique == IF /\ "nombre" \notin bad
                     /\ "empresa_proveedora" \notin bad
                     /\ \E k \in DOMAIN servicios \ {pk} :
                            /\ servicios[k].nombre = data.nombre
                            /\ servicios[k].empresa_proveedora = data.empresa_proveedora
                  THEN {"__all__"} ELSE {}
    IN  [errors |-> bad \cup unique,
         instance |-> [nombre |-> data.nombre, duracion |-> data.duracion,
                       unidad_duracion |-> data.unidad_duracion,
                       precio |-> IF IsNone(data.precio) THEN 0 ELSE Val(data.precio),
                       empresa_proveedora |-> data.empresa_proveedora,
                       activo |-> data.activo]]

ServicioIds == {1}

\* ServicioInformaticoCreateView: the form is validated and saved.
ServicioInformaticoCreateView(data) ==
    LET form == ServicioInformaticoForm_full_clean(data, NULL)
    IN  IF form.errors # {}
        THEN /\ resp' = Response("servicio_create", NULL, "invalid", form.errors, data)
             /\ UNCHANGED <<store, now>>
        ELSE /\ DOMAIN servicios # ServicioIds
             /\ LET pk == NextPk(servicios, ServicioIds)
                IN  /\ servicios' = Insert(servicios, pk, form.instance)
                    /\ resp' = Response("servicio_create", pk, "ok", {}, data)
             /\ UNCHANGED <<now, categorias, caracteristicas, tipos_servicio,
                            clientes, empresas, productos, pedidos,
                            items_productos, items_servicios>>

\* ServicioInformaticoUpdateView
ServicioInformaticoUpdateView(pk, data) ==
    IF pk \notin DOMAIN servicios
    THEN /\ resp' = Response("servicio_update", pk, "not_found", {}, data)
         /\ UNCHANGED <<store, now>>
    ELSE LET form == ServicioInformaticoForm_full_clean(data, pk)
         IN  IF form.errors # {}
             THEN /\ resp' = Response("servicio_update", pk, "invalid", form.errors, data)
                  /\ UNCHANGED <<store, now>>
             ELSE /\ servicios' = Insert(servicios, pk, form.instance)
                  /\ resp' = Response("servicio_update", pk, "ok", {}, data)
                  /\ UNCHANGED <<now, categorias, caracteristicas, tipos_servicio,
                                 clientes, empresas, productos, pedidos,
                                 items_productos, items_servicios>>

-----------------------------------------------------------------------------
(* views.py: PedidoCreateView and PedidoUpdateView *)

\* A pre_save that stamps the current time on every save, as auto_now does.
Pedido_fecha_pedido_pre_save_AutoNow(add, value) == now

\* DateTimeField(auto_now_add=True).pre_save for Pedido.fecha_pedido: the
\* current time when the row is inserted, the loaded value on a later save.
Pedido_fecha_pedido_pre_save(add, value) == IF add THEN now ELSE Val(value)

\* The storage write that fails during a request, if any: the save of the
\* product formset or the save of the service formset.  Neither view wraps
\* its writes in transaction.atomic, so what was written before stays.
StorageFaults == {"none", "producto_formset", "servicio_formset"}

\* form_valid of both views once the order form is valid: the formsets are
\* validated (the second only if the first is valid), then form.save(),
\* producto_formset.save() and servicio_formset.save() run in that order.
\* pedido is the order's primary key (NULL while unsaved, in the create view)
\* and pk the key it is saved under.
Pedido_form_valid(op, pedido, pk, data, producto_input, servicio_input, fault) ==
    LET producto_forms == FormsetForms("producto", pedido, producto_input)
        servicio_forms == FormsetForms("servicio", pedido, servicio_input)
        producto_errors == Formset_errors("producto", pedido, producto_forms)
        servicio_errors == Formset_errors("servicio", pedido, servicio_forms)
        row == [cliente |-> data.cliente, estado |-> data.estado,
                fecha_pedido |-> Pedido_fecha_pedido_pre_save(
                                     pedido = NULL,
                                     IF pedido = NULL THEN None
                                     ELSE Some(pedidos[pk].fecha_pedido))]
    IN  IF producto_errors # {} \/ servicio_errors # {}
        THEN /\ resp' = Response(op, pedido, "invalid",
                                 IF producto_errors # {} THEN producto_errors
                                 ELSE servicio_errors, <<>>)
             /\ UNCHANGED <<store, now>>
        ELSE /\ Formset_room("producto", producto_forms)
             /\ Formset_room("servicio", servicio_forms)
             /\ pedidos' = Insert(pedidos, pk, row)
             /\ CASE fault = "producto_formset" ->
                       /\ Formset_writes("producto", producto_forms) # {}
                       /\ UNCHANGED <<items_productos, items_servicios>>
                       /\ resp' = Response(op, pk, "error", {}, <<>>)
                  [] fault = "servicio_formset" ->
                       /\ Formset_writes("servicio", servicio_forms) # {}
                       /\ items_productos' = Formset_save("producto", pk, producto_forms)
                       /\ UNCHANGED items_servicios
                       /\ resp' = Response(op, pk, "error", {}, <<>>)
                  [] OTHER ->
                       /\ items_productos' = Formset_save("producto", pk, producto_forms)
                       /\ items_servicios' = Formset_save("servicio", pk, servicio_forms)
                       /\ resp' = Response(op, pk, "ok", {}, <<>>)
             /\ UNCHANGED <<now, categorias, caracteristicas, tipos_servicio,
                            clientes, empresas, productos, servicios>>

\* PedidoCreateView: post() validates the PedidoForm, then form_valid().
PedidoCreateView(data, producto_input, servicio_input, fault) ==
    IF PedidoForm_errors(data) # {}
    THEN /\ resp' = Response("pedido_create", NULL, "invalid", PedidoForm_errors(data), <<>>)
         /\ UNCHANGED <<store, now>>
    ELSE /\ Cardinality(DOMAIN pedidos) < MaxPedidos
         /\ Pedido_form_valid("pedido_create", NULL, NextPk(pedidos, 1..MaxPedidos),
                              data, producto_input, servicio_input, fault)

\* PedidoUpdateView: get_object() is a 404 for an unknown pk.
PedidoUpdateView(pk, data, producto_input, servicio_input, fault) ==
    IF pk \notin DOMAIN pedidos
    THEN /\ resp' = Response("pedido_update", pk, "not_found", {}, <<>>)
         /\ UNCHANGED <<store, now>>
    ELSE IF PedidoForm_errors(data) # {}
    THEN /\ resp' = Response("pedido_update", pk, "invalid", PedidoForm_errors(data), <<>>)
         /\ UNCHANGED <<store, now>>
    ELSE Pedido_form_valid("pedido_update", pk, pk, data, producto_input, servicio_input, fault)

-----------------------------------------------------------------------------
(* Callers of the model API: ItemProductoPedido(...).save() and              *)
(* ItemServicioPedido(...).save() on a new or a loaded instance.             *)

ItemRow(kind, pedido, ref, cantidad, precio_unitario) ==
    IF kind = "producto"
    THEN ItemProductoPedido_save([pedido |-> pedido, producto |-> ref, cantidad |-> cantidad,
                                  precio_unitario |-> precio_unitario])
    ELSE ItemServicioPedido_save([pedido |-> pedido, servicio |-> ref, cantidad |-> cantidad,
                                  precio_unitario |-> precio_unitario])

ItemOp(kind, verb) ==
    IF kind = "producto"
    THEN (IF verb = "create" THEN "item_producto_create" ELSE "item_producto_resave")
    ELSE (IF verb = "create" THEN "item_servicio_create" ELSE "item_servicio_resave")

SetItemTable(kind, table) ==
    IF kind = "producto"
    THEN items_productos' = table /\ UNCHANGED items_servicios
    ELSE items_servicios' = table /\ UNCHANGED items_productos

\* save() of a new instance; precio_unitario is None when the caller did not
\* set it.  The database rejects a second row for the same (pedido, ref).
ItemPedido_create(kind, pedido, ref, cantidad, precio_unitario) ==
    LET table == ItemTable(kind)
        data == [cantidad |-> cantidad, precio_unitario |-> precio_unitario]
    IN  /\ pedido \in DOMAIN pedidos
        /\ ref \in DOMAIN (IF kind = "producto" THEN productos ELSE servicios)
        /\ IF \E k \in DOMAIN table : table[k].pedido = pedido /\ RefOf(kind, table[k]) = ref
           THEN /\ resp' = Response(ItemOp(kind, "create"), NULL, "integrity", {}, data)
                /\ UNCHANGED <<store, now>>
           ELSE /\ ItemIds \ DOMAIN table # {}
                /\ LET pk == NextPk(table, ItemIds)
                   IN  /\ SetItemTable(kind, Insert(table, pk,
                                 ItemRow(kind, pedido, ref, cantidad, precio_unitario)))
                       /\ resp' = Response(ItemOp(kind, "create"), pk, "ok", {}, data)
                /\ UNCHANGED <<now, categorias, caracteristicas, tipos_servicio,
                               clientes, empresas, productos, servicios, pedidos>>

\* save() of a loaded instance after the caller set cantidad and, when
\* precio_unitario is not None, the unit price.
ItemPedido_resave(kind, pk, cantidad, precio_unitario) ==
    LET table == ItemTable(kind)
        data == [cantidad |-> cantidad, precio_unitario |-> precio_unitario]
    IN  /\ pk \in DOMAIN table
        /\ SetItemTable(kind, Insert(table, pk,
                 ItemRow(kind, table[pk].pedido, RefOf(kind, table[pk]), cantidad,
                         IF IsNone(precio_unitario) THEN Some(table[pk].precio_unitario)
                         ELSE precio_unitario)))
        /\ resp' = Response(ItemOp(kind, "resave"), pk, "ok", {}, data)
        /\ UNCHANGED <<now, categorias, caracteristicas, tipos_servicio,
                       clientes, empresas, productos, servicios, pedidos>>

-----------------------------------------------------------------------------
(* Orders over a fixed catalogue, and price changes under existing orders *)

Kinds == {"producto", "servicio"}

Cantidades == {1, 3}

CatalogoProducto(nombre, precio) ==
    [nombre |-> nombre, tipo |-> "laptop", tipo_personalizado |-> "", precio |-> precio,
     empresa_proveedora |-> 1, categoria |-> NULL, activo |-> TRUE]

CatalogoServicio(nombre, precio) ==
    [nombre |-> nombre, duracion |-> 2, unidad_duracion |-> "horas", precio |-> precio,
     empresa_proveedora |-> 1, activo |-> TRUE]

\* Update submissions that change only the price of a catalogue row.
ProductoPrecioData ==
    [nombre : {"A"}, tipo : {"laptop"}, tipo_personalizado : {""},
     precio : {Some(0), Some(1999)}, empresa_proveedora : {1},
     categoria : {NULL}, activo : {TRUE}]

ServicioPrecioData ==
    [nombre : {"S"}, duracion : {2}, unidad_duracion : {"horas"},
     precio : {Some(0), Some(1999)}, empresa_proveedora : {1}, activo : {TRUE}]

\* What a request submits for one inline formset of the order pedido: nothing
\* changed, one initial form edited (a new cantidad with the unit price as
\* rendered, or DELETE ticked), or the extra form filled in.
EditInputs(kind, pedido, cantidades) ==
    LET table == ItemTable(kind)
    IN  {[id |-> i, ref |-> RefOf(kind, table[i]), cantidad |-> c,
          precio_unitario |-> Some(table[i].precio_unitario), DELETE |-> FALSE]
         : i \in RelatedItems(table, pedido), c \in cantidades}
        \cup
        {[id |-> i, ref |-> RefOf(kind, table[i]), cantidad |-> table[i].cantidad,
          precio_unitario |-> Some(table[i].precio_unitario), DELETE |-> TRUE]
         : i \in RelatedItems(table, pedido)}

FormsetInputs(kind, pedido, cantidades, extras) ==
    {[edit |-> None, extra |-> None, extra2 |-> None]}
    \cup {[edit |-> Some(e), extra |-> None, extra2 |-> None]
          : e \in EditInputs(kind, pedido, cantidades)}
    \cup {[edit |-> None, extra |-> Some(x), extra2 |-> None] : x \in extras}

InitPrecios ==
    /\ clientes = ClientesIniciales
    /\ empresas = EmpresaIds
    /\ categorias = {}
    /\ productos = (1 :> CatalogoProducto("A", 1999))
    /\ servicios = (1 :> CatalogoServicio("S", 1999))
    /\ pedidos = (1 :> [cliente |-> 1, estado |-> "pendiente", fecha_pedido |-> 0])
    /\ items_productos = <<>>
    /\ items_servicios = <<>>
    /\ caracteristicas = <<>>
    /\ tipos_servicio = <<>>
    /\ now = 0
    /\ resp = NoResponse

PrecioProductoUpdate ==
    \E pk \in 1..MaxProductos, data \in ProductoPrecioData :
        ProductoHardwareUpdateView(pk, data, TRUE)

PrecioServicioUpdate ==
    \E data \in ServicioPrecioData : ServicioInformaticoUpdateView(1, data)

ItemCreate ==
    \E kind \in Kinds, pedido \in DOMAIN pedidos, cantidad \in Cantidades,
       precio_unitario \in {None, Some(0), Some(500)} :
        ItemPedido_create(kind, pedido, 1, cantidad, precio_unitario)

ItemResave ==
    \E kind \in Kinds, pk \in ItemIds, cantidad \in Cantidades,
       precio_unitario \in {None, Some(500)} :
        ItemPedido_resave(kind, pk, cantidad, precio_unitario)

PreciosExtras == {[ref |-> 1, cantidad |-> 1, precio_unitario |-> Some(0)]}

PreciosPedidoData == {[cliente |-> 1, estado |-> "pendiente"]}

PreciosPedidoUpdate ==
    \E pk \in 1..MaxPedidos, data \in PreciosPedidoData, fault \in StorageFaults :
        \E pin \in FormsetInputs("producto", pk, Cantidades, PreciosExtras),
           sin \in FormsetInputs("servicio", pk, Cantidades, PreciosExtras) :
            PedidoUpdateView(pk, data, pin, sin, fault)

NextPrecios ==
    \/ PrecioProductoUpdate
    \/ PrecioServicioUpdate
    \/ ItemCreate
    \/ ItemResave
    \/ PreciosPedidoUpdate

SpecPrecios == InitPrecios /\ [][NextPrecios]_vars

-----------------------------------------------------------------------------
(* Creating and updating orders through the views, storage faults included *)

PedidoData ==
    {[cliente |-> 1, estado |-> "pendiente"],
     [cliente |-> 1, estado |-> "confirmado"],
     [cliente |-> NULL, estado |-> "pendiente"]}

\* Extra forms: a unit price of 0 (replaced by the current price on save), and
\* a blank unit price, which the form rejects.
ProductoExtras ==
    {[ref |-> r, cantidad |-> 3, precio_unitario |-> Some(0)] : r \in {1, 2}}
    \cup {[ref |-> 1, cantidad |-> 1, precio_unitario |-> None]}

ServicioExtras == {[ref |-> 1, cantidad |-> 1, precio_unitario |-> Some(0)]}

Init ==
    /\ clientes = ClientesIniciales
    /\ empresas = EmpresaIds
    /\ categorias = {}
    /\ productos = (1 :> CatalogoProducto("A", 1999)) @@ (2 :> CatalogoProducto("B", 500))
    /\ servicios = (1 :> CatalogoServicio("S", 1000))
    /\ pedidos = <<>>
    /\ items_productos = <<>>
    /\ items_servicios = <<>>
    /\ caracteristicas = <<>>
    /\ tipos_servicio = <<>>
    /\ now = 0
    /\ resp = NoResponse

PedidoCreate ==
    \E data \in PedidoData, fault \in StorageFaults :
        \E pin \in FormsetInputs("producto", NULL, {}, ProductoExtras),
           sin \in FormsetInputs("servicio", NULL, {}, ServicioExtras) :
            PedidoCreateView(data, pin, sin, fault)

PedidoUpdate ==
    \E pk \in 1..MaxPedidos, data \in PedidoData, fault \in StorageFaults :
        \E pin \in FormsetInputs("producto", pk, {0, 1, 3}, ProductoExtras),
           sin \in FormsetInputs("servicio", pk, {0, 1, 3}, ServicioExtras) :
            PedidoUpdateView(pk, data, pin, sin, fault)

Next ==
    \/ PedidoCreate
    \/ PedidoUpdate

Spec == Init /\ [][Next]_vars

-----------------------------------------------------------------------------
(* The stored orders and line items the views produce when every write     *)
(* succeeds: the states the amounts are computed on.                        *)

TotalesPedidoData ==
    {[cliente |-> 1, estado |-> "pendiente"], [cliente |-> NULL, estado |-> "pendiente"]}

TotalesProductoExtras ==
    {[ref |-> r, cantidad |-> 3, precio_unitario |-> Some(0)] : r \in {1, 2}}

TotalesServicioExtras == {[ref |-> 1, cantidad |-> 2, precio_unitario |-> Some(0)]}

TotalesPedidoCreate ==
    \E data \in TotalesPedidoData :
        \E pin \in FormsetInputs("producto", NULL, {}, TotalesProductoExtras),
           sin \in FormsetInputs("servicio", NULL, {}, TotalesServicioExtras) :
            PedidoCreateView(data, pin, sin, "none")

TotalesPedidoUpdate ==
    \E pk \in DOMAIN pedidos, data \in TotalesPedidoData :
        \E pin \in FormsetInputs("producto", pk, {1}, TotalesProductoExtras),
           sin \in FormsetInputs("servicio", pk, {}, TotalesServicioExtras) :
            PedidoUpdateView(pk, data, pin, sin, "none")

NextTotales ==
    \/ TotalesPedidoCreate
    \/ TotalesPedidoUpdate

SpecTotales == Init /\ [][NextTotales]_vars

-----------------------------------------------------------------------------
(* Orders whose submissions repeat a product or service, or carry a         *)
(* quantity of 0.                                                           *)

ItemsPedidoData ==
    {[cliente |-> 1, estado |-> "pendiente"], [cliente |-> NULL, estado |-> "pendiente"]}

\* What a request submits for one inline formset of the order pedido: nothing,
\* one extra form (with a quantity of 0 or 1), two extra forms, or one initial
\* form edited: moved to another product or service, moved with an extra form
\* for the same one, or its quantity set to 0.
ItemsFormsetInputs(kind, pedido, refs) ==
    LET table == ItemTable(kind)
        items == RelatedItems(table, pedido)
        x(r, c) == [ref |-> r, cantidad |-> c, precio_unitario |-> Some(0)]
        e(i, r, c) == [id |-> i, ref |-> r, cantidad |-> c,
                       precio_unitario |-> Some(table[i].precio_unitario), DELETE |-> FALSE]
    IN  {[edit |-> None, extra |-> None, extra2 |-> None]}
        \cup {[edit |-> None, extra |-> Some(x(r, c)), extra2 |-> None]
              : r \in refs, c \in {0, 1}}
        \cup {[edit |-> None, extra |-> Some(x(rq[1], 1)), extra2 |-> Some(x(rq[2], 1))]
              : rq \in {t \in refs \X refs : t[1] <= t[2]}}
        \cup {[edit |-> Some(e(ir[1], ir[2], table[ir[1]].cantidad)), extra |-> ex,
               extra2 |-> None]
              : ir \in {t \in items \X refs : t[2] # RefOf(kind, table[t[1]])},
                ex \in {None, Some(x(1, 1))}}
        \cup {[edit |-> Some(e(i, RefOf(kind, table[i]), 0)), extra |-> None, extra2 |-> None]
              : i \in items}

ItemsInputs(kind, pedido) ==
    ItemsFormsetInputs(kind, pedido, IF kind = "producto" THEN {1, 2} ELSE {1})

ItemsPedidoCreate ==
    \E data \in ItemsPedidoData :
        \E pin \in ItemsInputs("producto", NULL), sin \in ItemsInputs("servicio", NULL) :
            PedidoCreateView(data, pin, sin, "none")

ItemsPedidoUpdate ==
    \E pk \in DOMAIN pedidos, data \in ItemsPedidoData :
        \E pin \in ItemsInputs("producto", pk), sin \in ItemsInputs("servicio", pk) :
            PedidoUpdateView(pk, data, pin, sin, "none")

NextItems ==
    \/ ItemsPedidoCreate
    \/ ItemsPedidoUpdate

SpecItems == Init /\ [][NextItems]_vars

-----------------------------------------------------------------------------
(* models.py: every ForeignKey is on_delete=models.CASCADE.  admin.py and   *)
(* views.py: the requests that delete a row, and the admin add views of the  *)
(* rows a product or a service owns.                                         *)

\* A collection that does not follow the products of a supplier.
ProductosDe_SinCascada(emps) == {}

\* EmpresaProveedora.productos: the products whose supplier is one of emps.
ProductosDe(emps) ==
    {k \in DOMAIN productos : productos[k].empresa_proveedora \in emps}

\* A collection that does not follow the products of a category.
ProductosDeCategoria_SinCascada(cats) == {}

\* CategoriaProducto.productos: the products whose category is one of cats
\* (a product without category has NULL there, which is no category).
ProductosDeCategoria(cats) ==
    {k \in DOMAIN productos : productos[k].categoria \in cats}

\* EmpresaProveedora.servicios
ServiciosDe(emps) ==
    {k \in DOMAIN servicios : servicios[k].empresa_proveedora \in emps}

\* Cliente.pedidos
PedidosDe(clis) == {k \in DOMAIN pedidos : pedidos[k].cliente \in clis}

\* A collection that does not follow the characteristics of a product.
CaracteristicasDe_SinCascada(prods) == {}

\* ProductoHardware.caracteristicas
CaracteristicasDe(prods) ==
    {k \in DOMAIN caracteristicas : caracteristicas[k].producto_hardware \in prods}

\* ServicioInformatico.tipos
TiposDe(servs) == {k \in DOMAIN tipos_servicio : tipos_servicio[k].servicio \in servs}

\* A collection that follows the orders only.
ItemsDe_SoloPedidos(kind, peds, refs) ==
    {k \in DOMAIN ItemTable(kind) : ItemTable(kind)[k].pedido \in peds}

\* The line items of the orders peds and of the products or services refs.
ItemsDe(kind, peds, refs) ==
    {k \in DOMAIN ItemTable(kind) :
        ItemTable(kind)[k].pedido \in peds \/ RefOf(kind, ItemTable(kind)[k]) \in refs}

\* Model.delete(): the Collector gathers the rows given and, through the
\* CASCADE foreign keys, every row that refers to a gathered row; all of them
\* are deleted in one transaction.  del names the rows the delete starts from.
Model_delete(del) ==
    LET prods == del.productos \cup ProductosDe(del.empresas)
                              \cup ProductosDeCategoria(del.categorias)
        servs == del.servicios \cup ServiciosDe(del.empresas)
        peds == del.pedidos \cup PedidosDe(del.clientes)
    IN  /\ clientes' = Delete(clientes, del.clientes)
        /\ empresas' = empresas \ del.empresas
        /\ categorias' = categorias \ del.categorias
        /\ productos' = Delete(productos, prods)
        /\ servicios' = Delete(servicios, servs)
        /\ pedidos' = Delete(pedidos, peds)
        /\ items_productos' = Delete(items_productos,
                                     del.items_productos \cup ItemsDe("producto", peds, prods))
        /\ items_servicios' = Delete(items_servicios,
                                     del.items_servicios \cup ItemsDe("servicio", peds, servs))
        /\ caracteristicas' = Delete(caracteristicas,
                                     del.caracteristicas \cup CaracteristicasDe(prods))
        /\ tipos_servicio' = Delete(tipos_servicio, del.tipos_servicio \cup TiposDe(servs))
        /\ UNCHANGED now

\* The models registered with the admin site.
AdminModels ==
    {"clientes", "empresas", "categorias", "productos", "servicios", "pedidos",
     "items_productos", "items_servicios", "caracteristicas", "tipos_servicio"}

\* The primary keys of the stored rows of a model.
Rows(model) ==
    CASE model = "clientes" -> DOMAIN clientes
      [] model = "empresas" -> empresas
      [] model = "categorias" -> categorias
      [] model = "productos" -> DOMAIN productos
      [] model = "servicios" -> DOMAIN servicios
      [] model = "pedidos" -> DOMAIN pedidos
      [] model = "items_productos" -> DOMAIN items_productos
      [] model = "items_servicios" -> DOMAIN items_servicios
      [] model = "caracteristicas" -> DOMAIN caracteristicas
      [] model = "tipos_servicio" -> DOMAIN tipos_servicio

\* The one row pk of a model, as the rows a delete starts from.
Only(model, pk) == [m \in AdminModels |-> IF m = model THEN {pk} ELSE {}]

\* ClienteDeleteView: get_object() is a 404 for an unknown pk; post() deletes.
ClienteDeleteView(pk) ==
    IF pk \notin DOMAIN clientes
    THEN /\ resp' = Response("cliente_delete", pk, "not_found", {}, <<>>)
         /\ UNCHANGED <<store, now>>
    ELSE /\ Model_delete(Only("clientes", pk))
         /\ resp' = Response("cliente_delete", pk, "ok", {}, <<>>)

\* ModelAdmin.delete_view of a registered model, confirmed.
Admin_delete(model, pk) ==
    IF pk \notin Rows(model)
    THEN /\ resp' = Response("admin_delete", pk, "not_found", {}, model)
         /\ UNCHANGED <<store, now>>
    ELSE /\ Model_delete(Only(model, pk))
         /\ resp' = Response("admin_delete", pk, "ok", {}, model)

CaracteristicaIds == {1}

TipoServicioIds == {1}

\* CaracteristicaProductoHardwareAdmin, add view: producto_hardware is a
\* ModelChoiceField over the stored products.
CaracteristicaProductoHardwareAdmin_add(producto_hardware) ==
    IF producto_hardware \notin DOMAIN productos
    THEN /\ resp' = Response("admin_caracteristica_add", NULL, "invalid",
                             {"producto_hardware"}, producto_hardware)
         /\ UNCHANGED <<store, now>>
    ELSE /\ DOMAIN caracteristicas # CaracteristicaIds
         /\ LET pk == NextPk(caracteristicas, CaracteristicaIds)
            IN  /\ caracteristicas' =
                       Insert(caracteristicas, pk,
                              [attr |-> "a", valor |-> "v",
                               producto_hardware |-> producto_hardware])
                /\ resp' = Response("admin_caracteristica_add", pk, "ok", {}, producto_hardware)
         /\ UNCHANGED <<now, categorias, tipos_servicio, clientes, empresas, productos, servicios,
                        pedidos, items_productos, items_servicios>>

\* TipoServicioAdmin, add view: servicio is a ModelChoiceField over the
\* stored services.
TipoServicioAdmin_add(servicio) ==
    IF servicio \notin DOMAIN servicios
    THEN /\ resp' = Response("admin_tipo_servicio_add", NULL, "invalid", {"servicio"}, servicio)
         /\ UNCHANGED <<store, now>>
    ELSE /\ DOMAIN tipos_servicio # TipoServicioIds
         /\ LET pk == NextPk(tipos_servicio, TipoServicioIds)
            IN  /\ tipos_servicio' =
                       Insert(tipos_servicio, pk, [tipo |-> "t", servicio |-> servicio])
                /\ resp' = Response("admin_tipo_servicio_add", pk, "ok", {}, servicio)
         /\ UNCHANGED <<now, categorias, caracteristicas, clientes, empresas, productos, servicios,
                        pedidos, items_productos, items_servicios>>

-----------------------------------------------------------------------------
(* Deleting under a populated catalogue: two suppliers, a product and a     *)
(* service of the first, and a product of the second.                       *)

InitBorrar ==
    /\ clientes = ClientesIniciales
    /\ empresas = {1, 2}
    /\ categorias = {}
    /\ productos = (1 :> CatalogoProducto("A", 1999))
                   @@ (2 :> [CatalogoProducto("B", 500) EXCEPT !.empresa_proveedora = 2])
    /\ servicios = (1 :> CatalogoServicio("S", 1000))
    /\ pedidos = <<>>
    /\ items_productos = <<>>
    /\ items_servicios = <<>>
    /\ caracteristicas = <<>>
    /\ tipos_servicio = <<>>
    /\ now = 0
    /\ resp = NoResponse

\* An order for the only client or for one that does not exist.
BorrarPedidoData ==
    {[cliente |-> 1, estado |-> "pendiente"], [cliente |-> 2, estado |-> "pendiente"]}

\* One extra form for the product or service ref, or none.
BorrarInputs(refs) ==
    {[edit |-> None, extra |-> None, extra2 |-> None]}
    \cup {[edit |-> None,
           extra |-> Some([ref |-> r, cantidad |-> 1, precio_unitario |-> Some(0)]),
           extra2 |-> None] : r \in refs}

BorrarPedidoCreate ==
    \E data \in BorrarPedidoData, pin \in BorrarInputs({1, 2}), sin \in BorrarInputs({1}) :
        PedidoCreateView(data, pin, sin, "none")

\* One initial form moved to the product or service ref, or nothing changed.
BorrarEdits(kind, pedido, refs) ==
    {[edit |-> None, extra |-> None, extra2 |-> None]}
    \cup {[edit |-> Some([id |-> i, ref |-> r, cantidad |-> ItemTable(kind)[i].cantidad,
                          precio_unitario |-> Some(ItemTable(kind)[i].precio_unitario),
                          DELETE |-> FALSE]),
           extra |-> None, extra2 |-> None]
          : i \in RelatedItems(ItemTable(kind), pedido), r \in refs}

BorrarPedidoUpdate ==
    \E pk \in DOMAIN pedidos, data \in BorrarPedidoData :
        \E pin \in BorrarEdits("producto", pk, {1, 2}), sin \in BorrarEdits("servicio", pk, {1}) :
            PedidoUpdateView(pk, data, pin, sin, "none")

BorrarCaracteristicaAdd ==
    \E producto_hardware \in 1..MaxProductos : CaracteristicaProductoHardwareAdmin_add(producto_hardware)

BorrarTipoServicioAdd ==
    \E servicio \in {1} : TipoServicioAdmin_add(servicio)

BorrarClienteDelete ==
    \E pk \in ClienteIds : ClienteDeleteView(pk)

BorrarAdminDelete ==
    \E model \in AdminModels, pk \in {1, 2} : Admin_delete(model, pk)

NextBorrar ==
    \/ BorrarPedidoCreate
    \/ BorrarPedidoUpdate
    \/ BorrarCaracteristicaAdd
    \/ BorrarTipoServicioAdd
    \/ BorrarClienteDelete
    \/ BorrarAdminDelete

SpecBorrar == InitBorrar /\ [][NextBorrar]_vars

-----------------------------------------------------------------------------
(* Deleting under two orders placed earlier: two categories, a product of   *)
(* the first category and the first supplier, a product of the second       *)
(* supplier whose category changes, and a service.                           *)

InitCategorias ==
    /\ clientes = ClientesIniciales
    /\ empresas = {1, 2}
    /\ categorias = {1, 2}
    /\ productos = (1 :> [CatalogoProducto("A", 1999) EXCEPT !.categoria = 1])
                   @@ (2 :> [CatalogoProducto("B", 500) EXCEPT !.empresa_proveedora = 2])
    /\ servicios = (1 :> CatalogoServicio("S", 1000))
    /\ pedidos = (1 :> [cliente |-> 1, estado |-> "pendiente", fecha_pedido |-> 0])
                 @@ (2 :> [cliente |-> 1, estado |-> "pendiente", fecha_pedido |-> 0])
    /\ items_productos =
           (1 :> [pedido |-> 1, producto |-> 1, cantidad |-> 1, precio_unitario |-> 1999])
           @@ (2 :> [pedido |-> 2, producto |-> 2, cantidad |-> 3, precio_unitario |-> 500])
    /\ items_servicios =
           (1 :> [pedido |-> 1, servicio |-> 1, cantidad |-> 1, precio_unitario |-> 1000])
    /\ caracteristicas = <<>>
    /\ tipos_servicio = <<>>
    /\ now = 0
    /\ resp = NoResponse

\* The second product with no category or with one of the two.
CategoriasProductoData ==
    {[CatalogoProducto("B", 500) EXCEPT !.empresa_proveedora = 2, !.categoria = c,
                                        !.precio = Some(500)]
     : c \in {NULL, 1, 2}}

CategoriasProductoUpdate ==
    \E data \in CategoriasProductoData : ProductoHardwareUpdateView(2, data, TRUE)

CategoriasPedidoUpdate ==
    \E pk \in DOMAIN pedidos, data \in PreciosPedidoData :
        \E pin \in BorrarEdits("producto", pk, {1, 2}), sin \in BorrarInputs({1}) :
            PedidoUpdateView(pk, data, pin, sin, "none")

CategoriasCaracteristicaAdd ==
    \E producto_hardware \in 1..MaxProductos : CaracteristicaProductoHardwareAdmin_add(producto_hardware)

CategoriasAdminDelete ==
    \E model \in {"empresas", "categorias", "productos", "servicios"}, pk \in {1, 2} :
        Admin_delete(model, pk)

NextCategorias ==
    \/ CategoriasProductoUpdate
    \/ CategoriasPedidoUpdate
    \/ CategoriasCaracteristicaAdd
    \/ CategoriasAdminDelete

SpecCategorias == InitCategorias /\ [][NextCategorias]_vars

-----------------------------------------------------------------------------
(* views.py: PedidoEstadoUpdateView, and the clock *)

\* A test that accepts whatever was submitted.
EstadoValido_Cualquiera(nuevo_estado) == nuevo_estado # None

\* nuevo_estado in dict(Pedido.ESTADO_PEDIDO_CHOICES); request.POST.get gives
\* None when no estado was submitted.
EstadoValido(nuevo_estado) ==
    nuevo_estado # None /\ Val(nuevo_estado) \in DOMAIN ESTADO_PEDIDO_CHOICES

\* A status update that refuses to move an order out of completado or
\* cancelado.
PedidoEstadoUpdateView_SinVuelta(pk, nuevo_estado) ==
    /\ pk \in DOMAIN pedidos
    /\ IF EstadoValido(nuevo_estado) /\ pedidos[pk].estado \notin {"completado", "cancelado"}
       THEN /\ pedidos' = [pedidos EXCEPT ![pk].estado = Val(nuevo_estado)]
            /\ resp' = Response("pedido_estado", pk, "ok", {}, nuevo_estado)
            /\ UNCHANGED <<now, categorias, caracteristicas, tipos_servicio, clientes, empresas,
                           productos, servicios, items_productos, items_servicios>>
       ELSE /\ resp' = Response("pedido_estado", pk, "invalid", {"estado"}, nuevo_estado)
            /\ UNCHANGED <<store, now>>

\* PedidoEstadoUpdateView.post: get_object_or_404, then pedido.estado is set
\* and the whole row saved, or an error message is left.
PedidoEstadoUpdateView(pk, nuevo_estado) ==
    IF pk \notin DOMAIN pedidos
    THEN /\ resp' = Response("pedido_estado", pk, "not_found", {}, nuevo_estado)
         /\ UNCHANGED <<store, now>>
    ELSE IF EstadoValido(nuevo_estado)
    THEN /\ pedidos' = Insert(pedidos, pk,
                              [cliente |-> pedidos[pk].cliente,
                               estado |-> Val(nuevo_estado),
                               fecha_pedido |-> Pedido_fecha_pedido_pre_save(
                                                    FALSE, Some(pedidos[pk].fecha_pedido))])
         /\ resp' = Response("pedido_estado", pk, "ok", {}, nuevo_estado)
         /\ UNCHANGED <<now, categorias, caracteristicas, tipos_servicio, clientes, empresas,
                        productos, servicios, items_productos, items_servicios>>
    ELSE /\ resp' = Response("pedido_estado", pk, "invalid", {"estado"}, nuevo_estado)
         /\ UNCHANGED <<store, now>>

\* timezone.now() moves on between two requests.
Tick ==
    /\ now < MaxNow
    /\ now' = now + 1
    /\ UNCHANGED <<store, resp>>

\* The order form with a valid and with an unknown estado.
EstadoPedidoData ==
    {[cliente |-> 1, estado |-> "pendiente"], [cliente |-> 1, estado |-> "enviado"]}

\* What a status update submits: two of the choices, an unknown value, nothing.
EstadosEnviados == {Some("confirmado"), Some("otros"), Some("enviado"), None}

\* No line item changed, one added, or the quantity of one changed.
EstadoInputs(kind, pedido) ==
    {[edit |-> None, extra |-> None, extra2 |-> None]}
    \cup {[edit |-> None,
           extra |-> Some([ref |-> 1, cantidad |-> 1, precio_unitario |-> Some(0)]),
           extra2 |-> None]}
    \cup {[edit |-> Some([id |-> i, ref |-> RefOf(kind, ItemTable(kind)[i]), cantidad |-> 3,
                          precio_unitario |-> Some(ItemTable(kind)[i].precio_unitario),
                          DELETE |-> FALSE]),
           extra |-> None, extra2 |-> None]
          : i \in RelatedItems(ItemTable(kind), pedido)}

NoInput == [edit |-> None, extra |-> None, extra2 |-> None]

EstadoPedidoCreate ==
    \E data \in EstadoPedidoData : PedidoCreateView(data, NoInput, NoInput, "none")

EstadoPedidoUpdate ==
    \E pk \in DOMAIN pedidos, data \in EstadoPedidoData :
        \E pin \in EstadoInputs("producto", pk) :
            PedidoUpdateView(pk, data, pin, NoInput, "none")

EstadoUpdate ==
    \E pk \in 1..MaxPedidos, nuevo_estado \in EstadosEnviados :
        PedidoEstadoUpdateView(pk, nuevo_estado)

NextEstado ==
    \/ EstadoPedidoCreate
    \/ EstadoPedidoUpdate
    \/ EstadoUpdate
    \/ Tick

SpecEstado == Init /\ [][NextEstado]_vars

-----------------------------------------------------------------------------
(* The life of an order: created and edited in any status, moved by status  *)
(* updates that submit each of the six values, deleted, while the clock runs. *)

CicloPedidoData ==
    {[cliente |-> 1, estado |-> "pendiente"], [cliente |-> 1, estado |-> "completado"]}

CicloPedidoCreate ==
    \E data \in CicloPedidoData : PedidoCreateView(data, NoInput, NoInput, "none")

CicloPedidoUpdate ==
    \E pk \in DOMAIN pedidos, data \in CicloPedidoData :
        \E pin \in EstadoInputs("producto", pk) :
            PedidoUpdateView(pk, data, pin, NoInput, "none")

CicloEstadoUpdate ==
    \E pk \in 1..MaxPedidos, nuevo_estado \in {Some(e) : e \in DOMAIN ESTADO_PEDIDO_CHOICES} :
        PedidoEstadoUpdateView(pk, nuevo_estado)

CicloPedidoDelete ==
    \E pk \in 1..MaxPedidos : Admin_delete("pedidos", pk)

NextCiclo ==
    \/ CicloPedidoCreate
    \/ CicloPedidoUpdate
    \/ CicloEstadoUpdate
    \/ CicloPedidoDelete
    \/ Tick

SpecCiclo == Init /\ [][NextCiclo]_vars

-----------------------------------------------------------------------------
(* Orders over a catalogue whose products and services are withdrawn and    *)
(* offered again.                                                            *)

\* The update form of a stored product or service, as rendered, with the
\* activo box ticked or not.
ActivosProductoData(pk) ==
    {[productos[pk] EXCEPT !.precio = Some(productos[pk].precio), !.activo = a]
     : a \in BOOLEAN}

ActivosServicioData(pk) ==
    {[servicios[pk] EXCEPT !.precio = Some(servicios[pk].precio), !.activo = a]
     : a \in BOOLEAN}

ActivosProductoUpdate ==
    \E pk \in DOMAIN productos : \E data \in ActivosProductoData(pk) :
        ProductoHardwareUpdateView(pk, data, TRUE)

ActivosServicioUpdate ==
    \E pk \in DOMAIN servicios : \E data \in ActivosServicioData(pk) :
        ServicioInformaticoUpdateView(pk, data)

\* One extra line for the product or service 1, or none.
ActivosExtras == {[ref |-> 1, cantidad |-> 1, precio_unitario |-> Some(500)]}

ActivosPedidoCreate ==
    \E data \in PreciosPedidoData :
        \E pin \in FormsetInputs("producto", NULL, {3}, ActivosExtras),
           sin \in FormsetInputs("servicio", NULL, {3}, ActivosExtras) :
            PedidoCreateView(data, pin, sin, "none")

ActivosPedidoUpdate ==
    \E pk \in DOMAIN pedidos, data \in PreciosPedidoData :
        \E pin \in FormsetInputs("producto", pk, {3}, ActivosExtras),
           sin \in FormsetInputs("servicio", pk, {3}, ActivosExtras) :
            PedidoUpdateView(pk, data, pin, sin, "none")

InitProductoServicio ==
    /\ clientes = ClientesIniciales
    /\ empresas = EmpresaIds
    /\ categorias = {}
    /\ productos = (1 :> CatalogoProducto("A", 1999))
    /\ servicios = (1 :> CatalogoServicio("S", 1000))
    /\ pedidos = <<>>
    /\ items_productos = <<>>
    /\ items_servicios = <<>>
    /\ caracteristicas = <<>>
    /\ tipos_servicio = <<>>
    /\ now = 0
    /\ resp = NoResponse

NextActivos ==
    \/ ActivosProductoUpdate
    \/ ActivosServicioUpdate
    \/ ActivosPedidoCreate
    \/ ActivosPedidoUpdate

SpecActivos == InitProductoServicio /\ [][NextActivos]_vars

-----------------------------------------------------------------------------
(* views.py: ProductoHardwareListView.  A text is an atom of the model; its *)
(* characters are looked up where a filter looks into it.                    *)

\* The characters of the texts the requests and the rows carry.
Chars(text) ==
    CASE text = "" -> <<>>
      [] text = "A" -> <<"A">>
      [] text = "B" -> <<"B">>
      [] text = "a" -> <<"a">>
      [] text = "b" -> <<"b">>
      [] text = "c" -> <<"c">>
      [] text = "v" -> <<"v">>
      [] text = "x" -> <<"x">>
      [] text = "Ab" -> <<"A", "b">>
      [] text = "ab" -> <<"a", "b">>
      [] text = "AB" -> <<"A", "B">>

\* The case folding of one character.
lower_char(ch) ==
    CASE ch = "A" -> "a"
      [] ch = "B" -> "b"
      [] OTHER -> ch

lower(chars) == [i \in DOMAIN chars |-> lower_char(chars[i])]

\* field__icontains=query: the folded query occurs in the folded field.
icontains(field, query) ==
    LET f == lower(Chars(field))
        q == lower(Chars(query))
    IN  \E k \in 0..(Len(f) - Len(q)) : \A i \in 1..Len(q) : f[k + i] = q[i]

\* A distinct() that leaves the rows as they are.
distinct_SinEfecto(rows) == rows

\* QuerySet.distinct(): rows maps each product of the result to the number of
\* times it is in it.
distinct(rows) == [k \in DOMAIN rows |-> 1]

\* The rows of ProductoHardware LEFT OUTER JOIN caracteristicas for the
\* product k: one per characteristic, or one without characteristic (NULL).
JoinRows(k) ==
    IF CaracteristicasDe({k}) = {} THEN {NULL} ELSE CaracteristicasDe({k})

\* The Q object of the search over one joined row.
SearchQ(k, c, search_query) ==
    \/ icontains(productos[k].nombre, search_query)
    \/ icontains(productos[k].tipo_personalizado, search_query)
    \/ c # NULL /\ icontains(caracteristicas[c].attr, search_query)
    \/ c # NULL /\ icontains(caracteristicas[c].valor, search_query)

\* ProductoHardwareListView.get_queryset: each filter is None when the request
\* leaves it empty.  The answer maps each product listed to the number of
\* times it is listed.
ProductoHardwareListView(tipo_filter, categoria_filter, empresa_filter, search_query) ==
    LET queryset == {k \in {j \in DOMAIN productos : productos[j].activo} :
                        /\ tipo_filter # None => productos[k].tipo = Val(tipo_filter)
                        /\ categoria_filter # None
                              => productos[k].categoria = Val(categoria_filter)
                        /\ empresa_filter # None
                              => productos[k].empresa_proveedora = Val(empresa_filter)}
        joined == [k \in queryset |->
                      Cardinality({c \in JoinRows(k) : SearchQ(k, c, search_query)})]
        filtered == [k \in {j \in queryset : joined[j] > 0} |-> joined[k]]
    IN  /\ resp' = Response("producto_list", NULL, "ok", {},
                            [filters |-> [tipo |-> tipo_filter, categoria |-> categoria_filter,
                                          empresa |-> empresa_filter, search |-> search_query],
                             productos |-> IF search_query # "" THEN distinct(filtered)
                                           ELSE [k \in queryset |-> 1]])
        /\ UNCHANGED <<store, now>>

\* CaracteristicaProductoHardwareAdmin, add view, with the attr and the valor
\* typed in.
CaracteristicaProductoHardwareAdmin_add_valor(attr, valor, producto_hardware) ==
    IF producto_hardware \notin DOMAIN productos
    THEN /\ resp' = Response("admin_caracteristica_add", NULL, "invalid",
                             {"producto_hardware"}, producto_hardware)
         /\ UNCHANGED <<store, now>>
    ELSE /\ DOMAIN caracteristicas # 1..MaxCaracteristicas
         /\ LET pk == NextPk(caracteristicas, 1..MaxCaracteristicas)
            IN  /\ caracteristicas' =
                       Insert(caracteristicas, pk,
                              [attr |-> attr, valor |-> valor,
                               producto_hardware |-> producto_hardware])
                /\ resp' = Response("admin_caracteristica_add", pk, "ok", {}, producto_hardware)
         /\ UNCHANGED <<now, categorias, tipos_servicio, clientes, empresas, productos, servicios,
                        pedidos, items_productos, items_servicios>>

-----------------------------------------------------------------------------
(* Searching a catalogue of two products whose characteristics come and go   *)
(* and which are withdrawn and offered again.                                *)

Valores == {"Ab", "ab", "c"}

Busquedas == {"", "AB", "b", "x"}

BusquedaCaracteristicaAdd ==
    \E valor \in Valores, producto_hardware \in DOMAIN productos :
        CaracteristicaProductoHardwareAdmin_add_valor("a", valor, producto_hardware)

BusquedaCaracteristicaDelete ==
    \E pk \in DOMAIN caracteristicas : Admin_delete("caracteristicas", pk)

BusquedaList ==
    \E search_query \in Busquedas, tipo_filter \in {None, Some("otros")},
       categoria_filter \in {None, Some(1)}, empresa_filter \in {None, Some(1)} :
        ProductoHardwareListView(tipo_filter, categoria_filter, empresa_filter, search_query)

NextBusqueda ==
    \/ ActivosProductoUpdate
    \/ BusquedaCaracteristicaAdd
    \/ BusquedaCaracteristicaDelete
    \/ BusquedaList

SpecBusqueda == Init /\ [][NextBusqueda]_vars

-----------------------------------------------------------------------------
(* Product and service submissions whose price, duration or type break a    *)
(* rule, one at a time or several at once.                                   *)

ValidacionProductoData ==
    [nombre : {"A"}, tipo : {"laptop", "otros"}, tipo_personalizado : {"", "x"},
     precio : {Some(-100), Some(0), Some(500)}, empresa_proveedora : {NULL},
     categoria : {NULL}, activo : {TRUE}]

ValidacionServicioData ==
    [nombre : {"S"}, duracion : {-1, 0, 2}, unidad_duracion : {"horas"},
     precio : {Some(-100), Some(0), Some(1000)}, empresa_proveedora : {1}, activo : {TRUE}]

ValidacionProductoCreate ==
    \E data \in ValidacionProductoData : ProductoHardwareCreateView(data, TRUE)

ValidacionProductoUpdate ==
    \E pk \in DOMAIN productos, data \in ValidacionProductoData :
        ProductoHardwareUpdateView(pk, data, TRUE)

ValidacionServicioCreate ==
    \E data \in ValidacionServicioData : ServicioInformaticoCreateView(data)

ValidacionServicioUpdate ==
    \E pk \in ServicioIds, data \in ValidacionServicioData :
        ServicioInformaticoUpdateView(pk, data)

NextValidacion ==
    \/ ValidacionProductoCreate
    \/ ValidacionProductoUpdate
    \/ ValidacionServicioCreate
    \/ ValidacionServicioUpdate

SpecValidacion == InitProductos /\ [][NextValidacion]_vars

-----------------------------------------------------------------------------
(* models.py: Cliente.presupuesto_vencido; views.py: the client views and   *)
(* DashboardView; admin.py: ClienteAdmin.  A date is a number of days.       *)

\* Ticks of the clock in one day.
TicksPerDay == 2

\* datetime.date(): the day a time falls on.
date(t) == t \div TicksPerDay

\* A property that already holds on the expiry date.
presupuesto_vencido_EnLaFecha(cliente) ==
    date(now) >= cliente.fecha_vencimiento_presupuesto

\* Cliente.presupuesto_vencido
presupuesto_vencido(cliente) ==
    date(now) > cliente.fecha_vencimiento_presupuesto

ClientePks == {1, 2}

\* ClienteForm: fecha_vencimiento_presupuesto is required.
ClienteForm_errors(data) ==
    IF IsNone(data.fecha_vencimiento_presupuesto)
    THEN {"fecha_vencimiento_presupuesto"} ELSE {}

\* ClienteCreateView
ClienteCreateView(data) ==
    IF ClienteForm_errors(data) # {}
    THEN /\ resp' = Response("cliente_create", NULL, "invalid", ClienteForm_errors(data), data)
         /\ UNCHANGED <<store, now>>
    ELSE /\ DOMAIN clientes # ClientePks
         /\ LET pk == NextPk(clientes, ClientePks)
            IN  /\ clientes' = Insert(clientes, pk,
                                      [fecha_vencimiento_presupuesto |->
                                           Val(data.fecha_vencimiento_presupuesto)])
                /\ resp' = Response("cliente_create", pk, "ok", {}, data)
         /\ UNCHANGED <<now, categorias, caracteristicas, tipos_servicio, empresas, productos, servicios,
                        pedidos, items_productos, items_servicios>>

\* ClienteUpdateView: get_object() is a 404 for an unknown pk.
ClienteUpdateView(pk, data) ==
    IF pk \notin DOMAIN clientes
    THEN /\ resp' = Response("cliente_update", pk, "not_found", {}, data)
         /\ UNCHANGED <<store, now>>
    ELSE IF ClienteForm_errors(data) # {}
    THEN /\ resp' = Response("cliente_update", pk, "invalid", ClienteForm_errors(data), data)
         /\ UNCHANGED <<store, now>>
    ELSE /\ clientes' = Insert(clientes, pk,
                               [fecha_vencimiento_presupuesto |->
                                    Val(data.fecha_vencimiento_presupuesto)])
         /\ resp' = Response("cliente_update", pk, "ok", {}, data)
         /\ UNCHANGED <<now, categorias, caracteristicas, tipos_servicio, empresas, productos, servicios,
                        pedidos, items_productos, items_servicios>>

\* DashboardView.get: the number of clients whose expiry date is before
\* today (fecha_vencimiento_presupuesto__lt).
DashboardView_get ==
    /\ resp' = Response("dashboard", NULL, "ok", {},
                        [clientes_presupuesto_vencido |->
                             Cardinality({k \in DOMAIN clientes :
                                 clientes[k].fecha_vencimiento_presupuesto < date(now)})])
    /\ UNCHANGED <<store, now>>

\* ClienteAdmin, change list: list_display shows presupuesto_vencido of every
\* client.
ClienteAdmin_changelist ==
    /\ resp' = Response("admin_cliente_list", NULL, "ok", {},
                        [k \in DOMAIN clientes |-> presupuesto_vencido(clientes[k])])
    /\ UNCHANGED <<store, now>>

-----------------------------------------------------------------------------
(* Clients whose budgets expire today or tomorrow, while the clock runs.    *)

ClienteData == [fecha_vencimiento_presupuesto : {None, Some(0), Some(1)}]

PresupuestoClienteCreate == \E data \in ClienteData : ClienteCreateView(data)

PresupuestoClienteUpdate ==
    \E pk \in ClientePks, data \in ClienteData : ClienteUpdateView(pk, data)

PresupuestoClienteDelete == \E pk \in ClientePks : ClienteDeleteView(pk)

NextPresupuesto ==
    \/ PresupuestoClienteCreate
    \/ PresupuestoClienteUpdate
    \/ PresupuestoClienteDelete
    \/ DashboardView_get
    \/ ClienteAdmin_changelist
    \/ Tick

SpecPresupuesto == InitProductos /\ [][NextPresupuesto]_vars

-----------------------------------------------------------------------------
(* Order updates whose line items arrive with any unit price: the item      *)
(* forms take precio_unitario from the request, whatever the widget shows.   *)

PreciosEnviados == {Some(-500), Some(0), Some(500)}

EnviadosExtras ==
    {[ref |-> 1, cantidad |-> c, precio_unitario |-> p] : c \in {1}, p \in PreciosEnviados}

EnviadosPedidoUpdate ==
    \E pk \in 1..MaxPedidos, data \in PreciosPedidoData :
        \E pin \in FormsetInputs("producto", pk, Cantidades, EnviadosExtras),
           sin \in FormsetInputs("servicio", pk, Cantidades, EnviadosExtras) :
            PedidoUpdateView(pk, data, pin, sin, "none")

EnviadosPedidoCreate ==
    \E data \in PreciosPedidoData :
        \E pin \in FormsetInputs("producto", NULL, Cantidades, EnviadosExtras),
           sin \in FormsetInputs("servicio", NULL, Cantidades, EnviadosExtras) :
            PedidoCreateView(data, pin, sin, "none")

EnviadosPedidoDelete ==
    \E pk \in 1..MaxPedidos : Admin_delete("pedidos", pk)

NextEnviados ==
    \/ EnviadosPedidoUpdate
    \/ EnviadosPedidoCreate
    \/ EnviadosPedidoDelete

SpecEnviados == InitPrecios /\ [][NextEnviados]_vars

-----------------------------------------------------------------------------
(* views.py: ProductoHardwareDetailView and the API views; models.py:       *)
(* ServicioInformatico.duracion_completa.                                    *)

\* A lookup that does not look at activo.
Activos_Todos(table) == DOMAIN table

\* filter(activo=True): the primary keys of the active rows of a table.
Activos(table) == {k \in DOMAIN table : table[k].activo}

\* str() of a Decimal with exponent -2, as '19.99' or '-0.05': the sign, the
\* digits before the point and the two digits after it.
str_Decimal(d) ==
    LET h == IF d.coef < 0 THEN -d.coef ELSE d.coef
    IN  [signo |-> IF d.coef < 0 THEN "-" ELSE "",
         entero |-> h \div 100,
         decimales |-> <<(h % 100) \div 10, h % 10>>]

\* f"{a} {b}"
fstring(a, b) == <<a, " ", b>>

\* ServicioInformatico.duracion_completa
duracion_completa(inst) ==
    fstring(inst.duracion, UNIDAD_DURACION_CHOICES[inst.unidad_duracion])

\* The HTTP methods a request to an API view comes with.
Methods == {"GET", "POST"}

\* A view function that falls off its `if request.method == 'GET'` returns
\* None, which Django answers with a server error.
ApiNoGet(op, pk) ==
    /\ resp' = Response(op, pk, "error", {}, <<>>)
    /\ UNCHANGED <<store, now>>

\* api_get_precio_producto, api_get_precio_servicio (kind "producto" or
\* "servicio"): get_object_or_404 over the active rows.
api_get_precio(kind, method, pk) ==
    LET table == IF kind = "producto" THEN productos ELSE servicios
        op == IF kind = "producto" THEN "api_precio_producto" ELSE "api_precio_servicio"
    IN  IF method # "GET" THEN ApiNoGet(op, pk)
        ELSE IF pk \notin Activos(table)
        THEN /\ resp' = Response(op, pk, "not_found", {}, <<>>)
             /\ UNCHANGED <<store, now>>
        ELSE /\ resp' = Response(op, pk, "ok", {},
                                 [precio |-> str_Decimal(DecFromField(table[pk].precio))])
             /\ UNCHANGED <<store, now>>

\* api_get_productos_empresa: id, nombre, precio and tipo_final of the active
\* products of the supplier.
api_get_productos_empresa(method, empresa_id) ==
    IF method # "GET" THEN ApiNoGet("api_productos_empresa", empresa_id)
    ELSE /\ resp' = Response("api_productos_empresa", empresa_id, "ok", {},
                     [k \in {j \in Activos(productos) :
                                productos[j].empresa_proveedora = empresa_id} |->
                         [nombre |-> productos[k].nombre,
                          precio |-> str_Decimal(DecFromField(productos[k].precio)),
                          tipo_final |->
                              IF productos[k].tipo = "otros"
                              THEN productos[k].tipo_personalizado
                              ELSE IF productos[k].tipo \in DOMAIN TIPO_PRODUCTO_CHOICES
                              THEN TIPO_PRODUCTO_CHOICES[productos[k].tipo]
                              ELSE productos[k].tipo]])
         /\ UNCHANGED <<store, now>>

\* api_get_servicios_empresa: id, nombre, precio and duracion_completa of the
\* active services of the supplier.
api_get_servicios_empresa(method, empresa_id) ==
    IF method # "GET" THEN ApiNoGet("api_servicios_empresa", empresa_id)
    ELSE /\ resp' = Response("api_servicios_empresa", empresa_id, "ok", {},
                     [k \in {j \in Activos(servicios) :
                                servicios[j].empresa_proveedora = empresa_id} |->
                         [nombre |-> servicios[k].nombre,
                          precio |-> str_Decimal(DecFromField(servicios[k].precio)),
                          duracion_completa |->
                              fstring(servicios[k].duracion, servicios[k].unidad_duracion)]])
         /\ UNCHANGED <<store, now>>

\* ProductoHardwareDetailView: the product, whose tipo_seleccion the page shows.
ProductoHardwareDetailView(pk) ==
    IF pk \notin DOMAIN productos
    THEN /\ resp' = Response("producto_detail", pk, "not_found", {}, <<>>)
         /\ UNCHANGED <<store, now>>
    ELSE /\ resp' = Response("producto_detail", pk, "ok", {},
                             [tipo_seleccion |-> tipo_seleccion(productos[pk])])
         /\ UNCHANGED <<store, now>>

-----------------------------------------------------------------------------
(* A catalogue of two suppliers whose products and services change type,    *)
(* supplier, price and availability, and the lookups over it.                *)

InitConsultas ==
    /\ clientes = ClientesIniciales
    /\ empresas = {1, 2}
    /\ categorias = {}
    /\ productos = <<>>
    /\ servicios = <<>>
    /\ pedidos = <<>>
    /\ items_productos = <<>>
    /\ items_servicios = <<>>
    /\ caracteristicas = <<>>
    /\ tipos_servicio = <<>>
    /\ now = 0
    /\ resp = NoResponse

ConsultasProductoData ==
    [nombre : {"A"}, tipo : {"laptop", "otros"}, tipo_personalizado : {"x"},
     precio : {Some(500), Some(1999)}, empresa_proveedora : {1, 2},
     categoria : {NULL}, activo : {TRUE, FALSE}]

ConsultasServicioData ==
    [nombre : {"S"}, duracion : {2}, unidad_duracion : {"horas", "dias"},
     precio : {Some(1000)}, empresa_proveedora : {1}, activo : {TRUE, FALSE}]

ConsultasProductoCreate ==
    \E data \in ConsultasProductoData : ProductoHardwareCreateView(data, TRUE)

ConsultasProductoUpdate ==
    \E pk \in DOMAIN productos, data \in ConsultasProductoData :
        ProductoHardwareUpdateView(pk, data, TRUE)

ConsultasServicioCreate ==
    \E data \in ConsultasServicioData : ServicioInformaticoCreateView(data)

ConsultasServicioUpdate ==
    \E pk \in DOMAIN servicios, data \in ConsultasServicioData :
        ServicioInformaticoUpdateView(pk, data)

ConsultasPrecio ==
    \E kind \in Kinds, method \in Methods, pk \in 1..MaxProductos :
        api_get_precio(kind, method, pk)

ConsultasProductosEmpresa ==
    \E method \in Methods, empresa_id \in {1, 2} : api_get_productos_empresa(method, empresa_id)

ConsultasServiciosEmpresa ==
    \E method \in Methods, empresa_id \in {1, 2} : api_get_servicios_empresa(method, empresa_id)

ConsultasProductoDetail ==
    \E pk \in 1..MaxProductos : ProductoHardwareDetailView(pk)

NextConsultas ==
    \/ ConsultasProductoCreate
    \/ ConsultasProductoUpdate
    \/ ConsultasServicioCreate
    \/ ConsultasServicioUpdate
    \/ ConsultasPrecio
    \/ ConsultasProductosEmpresa
    \/ ConsultasServiciosEmpresa
    \/ ConsultasProductoDetail

SpecConsultas == InitConsultas /\ [][NextConsultas]_vars

-----------------------------------------------------------------------------
(* Claims about the product catalogue *)

ProductoOps == {"producto_create", "producto_update",
                "admin_producto_add", "admin_producto_change"}

\* The last request validated a ProductoHardware submission.
ProductoValidated(r) == r.op \in ProductoOps /\ r.status # "not_found"

\* C7: after any sequence of validated product create and update operations,
\* every persisted ProductoHardware has a non-empty tipo_personalizado when
\* its tipo is 'otros' and an empty one when its tipo is anything else.
C7_TipoPersonalizadoConsistente ==
    \A pk \in DOMAIN productos :
        /\ productos[pk].tipo = "otros" => productos[pk].tipo_personalizado # ""
        /\ productos[pk].tipo # "otros" => productos[pk].tipo_personalizado = ""

\* C8: validating a ProductoHardware with tipo 'otros' and an empty
\* tipo_personalizado fails with an error on the field tipo_personalizado,
\* and no product row is created or modified.
C8_OtrosSinTipoPersonalizadoFalla ==
    [][(/\ ProductoValidated(resp')
        /\ resp'.data.tipo = "otros"
        /\ resp'.data.tipo_personalizado = "")
       => (/\ resp'.status = "invalid"
           /\ "tipo_personalizado" \in resp'.errors
           /\ productos' = productos)]_vars

C8_Witness ==
    /\ resp.op = "producto_update"
    /\ resp.status = "invalid"
    /\ resp.data.tipo = "otros"
    /\ resp.data.tipo_personalizado = ""
    /\ "tipo_personalizado" \in resp.errors
    /\ resp.pk \in DOMAIN productos
    /\ productos[resp.pk].tipo = "laptop"

\* C9: a ProductoHardware whose tipo is not 'otros' and whose
\* tipo_personalizado is non-empty passes validation without an error on it,
\* and the row that is saved has an empty tipo_personalizado.
C9_TipoPersonalizadoNormalizado ==
    [][(/\ ProductoValidated(resp')
        /\ resp'.data.tipo # "otros"
        /\ resp'.data.tipo_personalizado # "")
       => (/\ "tipo_personalizado" \notin resp'.errors
           /\ resp'.status = "ok" => productos'[resp'.pk].tipo_personalizado = "")]_vars

\* C10: no two persisted ProductoHardware rows have the same
\* (nombre, empresa_proveedora) pair, whatever the supplier, none included.
C10_NombreEmpresaUnico ==
    \A j, k \in DOMAIN productos :
        (/\ productos[j].nombre = productos[k].nombre
         /\ productos[j].empresa_proveedora = productos[k].empresa_proveedora)
        => j = k

-----------------------------------------------------------------------------
(* Claims about the unit-price snapshot of line items *)

ItemResaveOps == {"item_producto_resave", "item_servicio_resave"}

ItemCreateOps == {"item_producto_create", "item_servicio_create"}

\* The step's request is a re-save of line item i of the given kind in which
\* the caller assigned a unit price.
CallerSetsPrecio(r, kind, i) ==
    /\ r.op = ItemOp(kind, "resave")
    /\ r.pk = i
    /\ r.data.precio_unitario # None

\* C1: once a line item has been saved, its precio_unitario is never
\* recomputed: across price changes of the product or service and re-saves in
\* which the caller does not change the unit price, it keeps its value,
\* whatever that value is (0 included).
C1_PrecioUnitarioNuncaRecalculado ==
    [][/\ \A i \in DOMAIN items_productos \cap DOMAIN items_productos' :
            \/ CallerSetsPrecio(resp', "producto", i)
            \/ items_productos'[i].precio_unitario = items_productos[i].precio_unitario
       /\ \A i \in DOMAIN items_servicios \cap DOMAIN items_servicios' :
            \/ CallerSetsPrecio(resp', "servicio", i)
            \/ items_servicios'[i].precio_unitario = items_servicios[i].precio_unitario]_vars

\* C2: saving a new line item whose unit price was not set stores the precio
\* the referenced product (or service) has at the moment of the save.
C2_PrecioCopiadoAlCrear ==
    [][(/\ resp'.op \in ItemCreateOps
        /\ resp'.status = "ok"
        /\ resp'.data.precio_unitario = None)
       => IF resp'.op = "item_producto_create"
          THEN items_productos'[resp'.pk].precio_unitario
                 = productos[items_productos'[resp'.pk].producto].precio
          ELSE items_servicios'[resp'.pk].precio_unitario
                 = servicios[items_servicios'[resp'.pk].servicio].precio]_vars

C2_Witness ==
    /\ resp.op = "item_servicio_create"
    /\ resp.status = "ok"
    /\ resp.data.precio_unitario = None
    /\ items_servicios[resp.pk].precio_unitario = 1999
    /\ servicios[items_servicios[resp.pk].servicio].precio = 1999
    /\ \E i \in DOMAIN items_productos : items_productos[i].precio_unitario = 500

\* C3: updating the precio of a ProductoHardware or ServicioInformatico leaves
\* the precio_unitario and subtotal of every persisted line item, and the
\* total_pedido of every order, unchanged.
C3_CambioDePrecioNoRetroactivo ==
    [][resp'.op \in {"producto_update", "servicio_update"}
       => /\ DOMAIN items_productos' = DOMAIN items_productos
          /\ DOMAIN items_servicios' = DOMAIN items_servicios
          /\ \A i \in DOMAIN items_productos :
                /\ items_productos'[i].precio_unitario = items_productos[i].precio_unitario
                /\ subtotal(items_productos[i])' = subtotal(items_productos[i])
          /\ \A i \in DOMAIN items_servicios :
                /\ items_servicios'[i].precio_unitario = items_servicios[i].precio_unitario
                /\ subtotal(items_servicios[i])' = subtotal(items_servicios[i])
          /\ \A p \in DOMAIN pedidos : total_pedido(p)' = total_pedido(p)]_vars

C3_Witness ==
    /\ resp.op = "producto_update"
    /\ resp.status = "ok"
    /\ productos[resp.pk].precio = 0
    /\ \E i \in DOMAIN items_productos :
          /\ items_productos[i].producto = resp.pk
          /\ items_productos[i].precio_unitario = 1999
          /\ DecHundredths(total_pedido(items_productos[i].pedido)) >= 1999

-----------------------------------------------------------------------------
(* Claims about saving orders and about their amounts *)

PedidoOps == {"pedido_create", "pedido_update"}

\* C4: saving an order with its line items is all-or-nothing: a create or
\* update request either succeeds, with the order record and every submitted
\* line item persisted, or leaves the store exactly as it was, whether it
\* failed in validation or in a storage write after the order record or the
\* product items were written.
C4_PedidoTodoONada ==
    [][(resp'.op \in PedidoOps /\ resp'.status # "ok") => UNCHANGED store]_vars

\* The amount of a set of line items in hundredths, by plain integer
\* arithmetic on the stored columns.
RECURSIVE SumaCentavos(_, _)
SumaCentavos(S, table) ==
    IF S = {} THEN 0
    ELSE LET x == CHOOSE y \in S : TRUE
         IN  table[x].cantidad * table[x].precio_unitario + SumaCentavos(S \ {x}, table)

\* C5: for every order, total_pedido is the sum of the subtotals of its
\* product line items plus the sum of the subtotals of its service line items,
\* and an order without line items has total 0.
C5_TotalEsSumaDeSubtotales ==
    \A p \in DOMAIN pedidos :
        LET ps == RelatedItems(items_productos, p)
            ss == RelatedItems(items_servicios, p)
        IN  /\ DecHundredths(total_pedido(p))
                   = SumaCentavos(ps, items_productos) + SumaCentavos(ss, items_servicios)
            /\ total_pedido(p).exp \in {-2, 0}
            /\ (ps = {} /\ ss = {}) => total_pedido(p) = DecFromInt(0)

\* C5 witness: an order with product and service line items whose total is
\* 3 x 19.99 + 2 x 10.00.
C5_Witness ==
    \E p \in DOMAIN pedidos :
        /\ \E i \in RelatedItems(items_productos, p) :
               items_productos[i].cantidad = 3 /\ items_productos[i].precio_unitario = 1999
        /\ \E i \in RelatedItems(items_servicios, p) :
               items_servicios[i].cantidad = 2 /\ items_servicios[i].precio_unitario = 1000
        /\ Cardinality(RelatedItems(items_productos, p)) = 1
        /\ total_pedido(p) = Dec(5997 + 2000, -2)

\* C6: the subtotal of every product and service line item is cantidad times
\* precio_unitario exactly, to the hundredth, with no rounding.
C6_SubtotalExacto ==
    /\ \A i \in DOMAIN items_productos :
           subtotal(items_productos[i])
               = Dec(items_productos[i].cantidad * items_productos[i].precio_unitario, -2)
    /\ \A i \in DOMAIN items_servicios :
           subtotal(items_servicios[i])
               = Dec(items_servicios[i].cantidad * items_servicios[i].precio_unitario, -2)

\* C6 witness: a product line item of quantity 3 at 19.99 with subtotal 59.97,
\* next to a service line item.
C6_Witness ==
    /\ \E i \in DOMAIN items_productos :
           /\ items_productos[i].cantidad = 3
           /\ items_productos[i].precio_unitario = 1999
           /\ subtotal(items_productos[i]) = Dec(5997, -2)
    /\ DOMAIN items_servicios # {}

-----------------------------------------------------------------------------
(* Claims about the line items of an order *)

\* The forms of a submission that are not marked for deletion.
LiveForms(kind, pedido, input) == {f \in FormsetForms(kind, pedido, input) : ~f.DELETE}

\* The submission names one product (or service) in two of its live forms.
Repetido(kind, pedido, input) ==
    \E f, g \in LiveForms(kind, pedido, input) : f # g /\ f.ref = g.ref

\* The step is the create or update request that submits pin and sin for the
\* order pedido (NULL for a new one).
PedidoRequest(pedido, data, pin, sin) ==
    IF pedido = NULL THEN PedidoCreateView(data, pin, sin, "none")
    ELSE PedidoUpdateView(pedido, data, pin, sin, "none")

SinRepetidos ==
    /\ \A j, k \in DOMAIN items_productos :
           (/\ items_productos[j].pedido = items_productos[k].pedido
            /\ items_productos[j].producto = items_productos[k].producto) => j = k
    /\ \A j, k \in DOMAIN items_servicios :
           (/\ items_servicios[j].pedido = items_servicios[k].pedido
            /\ items_servicios[j].servicio = items_servicios[k].servicio) => j = k

\* C11: after every order create and update no order has two product line
\* items for one product or two service line items for one service, and a
\* submission that names a product or service twice is rejected and writes
\* nothing.  What a request does depends on the store and not on resp, so the
\* submissions are tried on each store as Init or a successful request left it.
C11_ItemsSinRepetidos ==
    /\ SinRepetidos
    /\ resp.status = "ok" =>
       \A pedido \in {NULL} \cup DOMAIN pedidos, data \in ItemsPedidoData :
         \A pin \in ItemsInputs("producto", pedido), sin \in ItemsInputs("servicio", pedido) :
            (Repetido("producto", pedido, pin) \/ Repetido("servicio", pedido, sin))
            => ~ENABLED (/\ PedidoRequest(pedido, data, pin, sin)
                         /\ ~(resp'.status = "invalid" /\ UNCHANGED store))

\* C11 witness: an update that named a product twice was rejected with a
\* non-field error, on an order that holds both products and the service.
C11_Witness ==
    /\ resp.op = "pedido_update"
    /\ resp.status = "invalid"
    /\ "__all__" \in resp.errors
    /\ \E j, k \in DOMAIN items_productos :
           /\ items_productos[j].pedido = resp.pk
           /\ items_productos[k].pedido = resp.pk
           /\ items_productos[j].producto # items_productos[k].producto
    /\ \E k \in DOMAIN items_servicios : items_servicios[k].pedido = resp.pk

\* C18: every persisted product and service line item has cantidad >= 1 after
\* every order create and update, and a submission with a quantity of 0 is
\* rejected with an error on cantidad and persists no line item.
C18_CantidadMinima ==
    /\ \A i \in DOMAIN items_productos : items_productos[i].cantidad >= 1
    /\ \A i \in DOMAIN items_servicios : items_servicios[i].cantidad >= 1
    /\ resp.status = "ok" =>
       \A pedido \in {NULL} \cup DOMAIN pedidos, data \in ItemsPedidoData :
         \A pin \in ItemsInputs("producto", pedido), sin \in ItemsInputs("servicio", pedido) :
            LET pzero == \E f \in LiveForms("producto", pedido, pin) : f.cantidad = 0
                szero == \E f \in LiveForms("servicio", pedido, sin) : f.cantidad = 0
            IN  (pzero \/ szero)
                => /\ ~ENABLED (/\ PedidoRequest(pedido, data, pin, sin)
                                /\ ~(resp'.status = "invalid" /\ UNCHANGED store))
                   /\ pzero => "cantidad" \in Formset_errors("producto", pedido,
                                    FormsetForms("producto", pedido, pin))
                   /\ szero => "cantidad" \in Formset_errors("servicio", pedido,
                                    FormsetForms("servicio", pedido, sin))

\* C18 witness: an update that set a stored quantity to 0 was rejected with an
\* error on cantidad and the line item kept its quantity.
C18_Witness ==
    /\ resp.op = "pedido_update"
    /\ resp.status = "invalid"
    /\ "cantidad" \in resp.errors
    /\ \E i \in DOMAIN items_servicios :
           items_servicios[i].pedido = resp.pk /\ items_servicios[i].cantidad = 1

-----------------------------------------------------------------------------
(* Claims about deleting *)

DeleteOps == {"cliente_delete", "admin_delete"}

\* Every reference the four ownership relations hold points at a stored row.
SinReferenciasColgantes ==
    /\ \A k \in DOMAIN pedidos : pedidos[k].cliente \in DOMAIN clientes
    /\ \A k \in DOMAIN items_productos :
          /\ items_productos[k].pedido \in DOMAIN pedidos
          /\ items_productos[k].producto \in DOMAIN productos
    /\ \A k \in DOMAIN items_servicios :
          /\ items_servicios[k].pedido \in DOMAIN pedidos
          /\ items_servicios[k].servicio \in DOMAIN servicios
    /\ \A k \in DOMAIN caracteristicas :
          caracteristicas[k].producto_hardware \in DOMAIN productos
    /\ \A k \in DOMAIN tipos_servicio : tipos_servicio[k].servicio \in DOMAIN servicios

\* The row a successful delete request named is gone afterwards.
BorradoEfectivo ==
    \A model \in AdminModels :
        (/\ resp'.op \in DeleteOps
         /\ resp'.status = "ok"
         /\ model = (IF resp'.op = "cliente_delete" THEN "clientes" ELSE resp'.data))
        => resp'.pk \notin Rows(model)'

\* C12: after any sequence of create, update and delete requests no order
\* refers to a missing client, no line item to a missing order, product or
\* service, no characteristic to a missing product and no service type to a
\* missing service; a successful delete removes the row it names, so the rows
\* that row owns, transitively, are removed with it.
C12_SinReferenciasColgantes ==
    /\ []SinReferenciasColgantes
    /\ [][BorradoEfectivo]_vars

\* The only client has just been deleted and took the orders and their line
\* items with it, while the catalogue and what it owns is still there.
C12_Witness ==
    /\ resp.op = "cliente_delete" /\ resp.status = "ok"
    /\ clientes = <<>> /\ pedidos = <<>>
    /\ items_productos = <<>> /\ items_servicios = <<>>
    /\ DOMAIN productos = {1, 2} /\ DOMAIN servicios = {1}
    /\ caracteristicas # <<>> /\ tipos_servicio # <<>>

\* C13: a successful delete of the supplier e removes e, the products and
\* services whose supplier is e, the characteristics of those products, the
\* service types of those services and the line items for those products and
\* services, and nothing else: every other supplier, product, service,
\* characteristic, service type and line item, and every client and order, is
\* left as it was.
C13_BorrarEmpresa ==
    [][(resp'.op = "admin_delete" /\ resp'.data = "empresas" /\ resp'.status = "ok")
       => LET e == resp'.pk
              P == {k \in DOMAIN productos : productos[k].empresa_proveedora = e}
              S == {k \in DOMAIN servicios : servicios[k].empresa_proveedora = e}
          IN  /\ e \in empresas
              /\ empresas' = empresas \ {e}
              /\ productos' = Delete(productos, P)
              /\ servicios' = Delete(servicios, S)
              /\ caracteristicas' =
                     Delete(caracteristicas,
                            {k \in DOMAIN caracteristicas :
                                caracteristicas[k].producto_hardware \in P})
              /\ tipos_servicio' =
                     Delete(tipos_servicio,
                            {k \in DOMAIN tipos_servicio : tipos_servicio[k].servicio \in S})
              /\ items_productos' =
                     Delete(items_productos,
                            {k \in DOMAIN items_productos : items_productos[k].producto \in P})
              /\ items_servicios' =
                     Delete(items_servicios,
                            {k \in DOMAIN items_servicios : items_servicios[k].servicio \in S})
              /\ clientes' = clientes
              /\ pedidos' = pedidos]_vars

\* The first supplier has just been deleted with its product and its service;
\* the second supplier, its product, a characteristic of it, the client, the
\* order and the order's line item for that product are still there.
C13_Witness ==
    /\ resp.op = "admin_delete" /\ resp.data = "empresas"
    /\ resp.pk = 1 /\ resp.status = "ok"
    /\ empresas = {2} /\ DOMAIN productos = {2} /\ servicios = <<>>
    /\ clientes # <<>> /\ pedidos # <<>>
    /\ \E k \in DOMAIN items_productos : items_productos[k].producto = 2
    /\ \E k \in DOMAIN caracteristicas : caracteristicas[k].producto_hardware = 2
    /\ items_servicios = <<>> /\ tipos_servicio = <<>>

-----------------------------------------------------------------------------
(* Claims about the date and the status of an order *)

\* C14: fecha_pedido is the time the order was created at, and no later
\* request (order update, status update, line-item change) changes it.
C14_FechaPedidoFija ==
    [][\A pk \in DOMAIN pedidos' :
          pedidos'[pk].fecha_pedido =
              IF pk \in DOMAIN pedidos THEN pedidos[pk].fecha_pedido ELSE now]_vars

\* An order created at time 0 still carries that date when the clock has
\* moved on and an update has just changed one of its line items.
C14_Witness ==
    \E pk \in DOMAIN pedidos :
        /\ pedidos[pk].fecha_pedido = 0 /\ now = MaxNow
        /\ resp = Response("pedido_update", pk, "ok", {}, <<>>)
        /\ \E i \in DOMAIN items_productos :
              items_productos[i].pedido = pk /\ items_productos[i].cantidad = 3

SeisEstados == {"pendiente", "confirmado", "en_proceso", "completado", "cancelado", "otros"}

\* A status update answered as the claim says, resp' being the answer.
EstadoUpdateCorrecto ==
    LET pk == resp'.pk
        nuevo_estado == resp'.data
        valido == nuevo_estado # None /\ Val(nuevo_estado) \in SeisEstados
    IN  IF pk \notin DOMAIN pedidos
        THEN resp'.status = "not_found" /\ UNCHANGED store
        ELSE IF valido
        THEN /\ resp'.status = "ok"
             /\ pedidos' = [pedidos EXCEPT ![pk].estado = Val(nuevo_estado)]
             /\ UNCHANGED <<clientes, empresas, categorias, productos, servicios, items_productos,
                            items_servicios, caracteristicas, tipos_servicio>>
        ELSE resp'.status = "invalid" /\ resp'.errors # {} /\ UNCHANGED store

\* C15: the estado of every order is one of the six values; a status update
\* for a known order sets estado to a submitted valid value and changes
\* nothing else, answers any other value, or none, with an error and changes
\* nothing, and answers an unknown order id with not-found, changing nothing.
C15_EstadoValido ==
    /\ [](\A pk \in DOMAIN pedidos : pedidos[pk].estado \in SeisEstados)
    /\ [][resp'.op = "pedido_estado" => EstadoUpdateCorrecto]_vars

\* An order with a line item whose status was set to "otros", after which a
\* status update that submitted an unknown value was answered with an error.
C15_Witness ==
    \E pk \in DOMAIN pedidos :
        /\ pedidos[pk].estado = "otros"
        /\ resp = Response("pedido_estado", pk, "invalid", {"estado"}, Some("enviado"))
        /\ RelatedItems(items_productos, pk) # {}

-----------------------------------------------------------------------------
(* Claims about the validation of product and service submissions *)

ProductoFormOps == {"producto_create", "producto_update"}

ServicioFormOps == {"servicio_create", "servicio_update"}

\* The request just answered was rejected with an error on field and wrote
\* nothing.
Rechazado(field) ==
    /\ resp'.status = "invalid"
    /\ field \in resp'.errors
    /\ UNCHANGED store

\* C16: a product or service submitted through its form with a price of 0 or
\* less is rejected with an error on precio and nothing is persisted.
C16_PrecioPositivo ==
    [][(/\ resp'.op \in ProductoFormOps \cup ServicioFormOps
        /\ resp'.status # "not_found"
        /\ resp'.data.precio # None
        /\ Val(resp'.data.precio) <= 0)
       => Rechazado("precio")]_vars

\* C17: every stored service has a duration greater than 0, and a service
\* submitted with a duration of 0 or less is rejected with an error on
\* duracion.
C17_DuracionPositiva ==
    /\ [](\A k \in DOMAIN servicios : servicios[k].duracion > 0)
    /\ [][(/\ resp'.op \in ServicioFormOps
           /\ resp'.status # "not_found"
           /\ resp'.data.duracion <= 0)
          => Rechazado("duracion")]_vars

\* The fields of a submission that break a rule: a price or a duration of 0
\* or less, the type 'otros' with no custom type.
Violaciones(op, data) ==
    (IF data.precio # None /\ Val(data.precio) <= 0 THEN {"precio"} ELSE {})
    \cup (IF op \in ServicioFormOps /\ data.duracion <= 0 THEN {"duracion"} ELSE {})
    \cup (IF op \in ProductoFormOps /\ data.tipo = "otros" /\ data.tipo_personalizado = ""
          THEN {"tipo_personalizado"} ELSE {})

\* C19: a submission that breaks several rules at once is rejected with an
\* error entry for every offending field, and nothing is persisted.
C19_TodosLosErrores ==
    [][(/\ resp'.op \in ProductoFormOps \cup ServicioFormOps
        /\ resp'.status # "not_found"
        /\ Cardinality(Violaciones(resp'.op, resp'.data)) >= 2)
       => /\ resp'.status = "invalid"
          /\ Violaciones(resp'.op, resp'.data) \subseteq resp'.errors
          /\ UNCHANGED store]_vars

-----------------------------------------------------------------------------
(* Claims about the expiry of a client's budget *)

\* The day it is.
Hoy == now \div TicksPerDay

\* The clients whose expiry date lies strictly before today.
Vencidos == {k \in DOMAIN clientes : Hoy > clientes[k].fecha_vencimiento_presupuesto}

\* C20: for every client and every current date, presupuesto_vencido is true
\* exactly when the current date is strictly after the client's
\* fecha_vencimiento_presupuesto, so it is false on the expiry date itself;
\* the admin list shows that value and the dashboard counts those clients.
C20_PresupuestoVencido ==
    /\ [](\A k \in DOMAIN clientes :
            /\ presupuesto_vencido(clientes[k]) <=> k \in Vencidos
            /\ clientes[k].fecha_vencimiento_presupuesto = Hoy
               => ~presupuesto_vencido(clientes[k]))
    /\ [][(now' = now /\ resp'.op = "admin_cliente_list")
          => resp'.data = [k \in DOMAIN clientes |-> k \in Vencidos]]_vars
    /\ [][(now' = now /\ resp'.op = "dashboard")
          => resp'.data.clientes_presupuesto_vencido = Cardinality(Vencidos)]_vars

\* On day 1 the admin list shows the budget that expired on day 0 as expired
\* and the budget that expires on day 1 as not expired.
C20_Witness ==
    /\ Hoy = 1
    /\ DOMAIN clientes = {1, 2}
    /\ clientes[1].fecha_vencimiento_presupuesto = 1
    /\ clientes[2].fecha_vencimiento_presupuesto = 0
    /\ resp.op = "admin_cliente_list"
    /\ resp.data = (1 :> FALSE) @@ (2 :> TRUE)


-----------------------------------------------------------------------------
(* The lookups.                                                              *)

\* The hundredths a price text such as '19.99' stands for.
PrecioLeido(t) ==
    (IF t.signo = "-" THEN -1 ELSE 1)
        * (t.entero * 100 + t.decimales[1] * 10 + t.decimales[2])

PrecioOps == {"api_precio_producto", "api_precio_servicio"}

PrecioTable(op) == IF op = "api_precio_producto" THEN productos ELSE servicios

\* C22: a price lookup (a GET of the product or service price endpoint) for an
\* id answers with the current precio of the record if and only if the record
\* exists and is active; for a missing or an inactive id it answers not found;
\* and it changes no stored data.
C22_PrecioSoloActivos ==
    [][resp'.op \in PrecioOps =>
        /\ UNCHANGED store
        /\ resp'.status # "error" =>
            LET table == PrecioTable(resp'.op)
                vigente == resp'.pk \in DOMAIN table /\ table[resp'.pk].activo
            IN  /\ vigente =>
                    /\ resp'.status = "ok"
                    /\ PrecioLeido(resp'.data.precio) = table[resp'.pk].precio
                /\ ~vigente => resp'.status = "not_found"]_vars

\* A price lookup answered with 19.99, the current price of an active product
\* whose price was 5.00 or 19.99 at some earlier time.
C22_Witness ==
    /\ resp.op = "api_precio_producto"
    /\ resp.status = "ok"
    /\ productos[resp.pk].activo
    /\ resp.data.precio = [signo |-> "", entero |-> 19, decimales |-> <<9, 9>>]
    /\ \E k \in DOMAIN productos : ~productos[k].activo

\* What the specification says tipo_seleccion is.
TipoMostrado(inst) ==
    IF inst.tipo = "otros" /\ inst.tipo_personalizado # ""
    THEN inst.tipo_personalizado
    ELSE TIPO_PRODUCTO_CHOICES[inst.tipo]

\* C23: the tipo_seleccion of a product is its tipo_personalizado when tipo is
\* 'otros' and tipo_personalizado is not empty, and the label of tipo
\* otherwise; reading it again gives the same value, and reading it never
\* modifies the record.
C23_TipoSeleccion ==
    /\ [](resp.op = "producto_detail" /\ resp.status = "ok" =>
            /\ resp.data.tipo_seleccion = TipoMostrado(productos[resp.pk])
            /\ ~ENABLED (/\ ProductoHardwareDetailView(resp.pk)
                         /\ ~(resp' = resp /\ UNCHANGED store)))
    /\ [][resp'.op = "producto_detail" => UNCHANGED store]_vars

\* The page of a product of type 'otros' shows its custom type, while another
\* product of a listed type exists.
C23_Witness ==
    /\ resp.op = "producto_detail"
    /\ resp.status = "ok"
    /\ productos[resp.pk].tipo = "otros"
    /\ resp.data.tipo_seleccion = "x"
    /\ \E k \in DOMAIN productos : productos[k].tipo = "laptop"

\* C29: the supplier lookup answers with exactly the active products
\* (services) of the given supplier; the tipo_final of every product in the
\* answer equals its tipo_seleccion and the duration summary of every service
\* equals its duracion_completa.
C29_ConsultaProveedor ==
    /\ resp.op = "api_productos_empresa" /\ resp.status = "ok" =>
        /\ DOMAIN resp.data =
               {k \in DOMAIN productos : /\ productos[k].activo
                                         /\ productos[k].empresa_proveedora = resp.pk}
        /\ \A k \in DOMAIN resp.data :
               resp.data[k].tipo_final = TipoMostrado(productos[k])
    /\ resp.op = "api_servicios_empresa" /\ resp.status = "ok" =>
        /\ DOMAIN resp.data =
               {k \in DOMAIN servicios : /\ servicios[k].activo
                                         /\ servicios[k].empresa_proveedora = resp.pk}
        /\ \A k \in DOMAIN resp.data :
               resp.data[k].duracion_completa = duracion_completa(servicios[k])


-----------------------------------------------------------------------------
(* Unit prices submitted with an order.                                      *)

\* C24: a line item saved with an explicitly supplied unit price p is stored
\* with precio_unitario equal to p, for every p >= 0 (0 included), whatever
\* the current precio of the product or service is.
C24_PrecioExplicitoPersistido ==
    [][(/\ resp'.op \in ItemCreateOps \cup ItemResaveOps
        /\ resp'.status = "ok"
        /\ resp'.data.precio_unitario # None
        /\ Val(resp'.data.precio_unitario) >= 0)
       => IF resp'.op \in {"item_producto_create", "item_producto_resave"}
          THEN items_productos'[resp'.pk].precio_unitario = Val(resp'.data.precio_unitario)
          ELSE items_servicios'[resp'.pk].precio_unitario = Val(resp'.data.precio_unitario)]_vars

\* C27: whatever unit prices the order create and update requests submit,
\* every stored line item has precio_unitario >= 0 and so every order has
\* total_pedido >= 0.
C27_PreciosNoNegativos ==
    /\ \A i \in DOMAIN items_productos : items_productos[i].precio_unitario >= 0
    /\ \A i \in DOMAIN items_servicios : items_servicios[i].precio_unitario >= 0
    /\ \A pk \in DOMAIN pedidos : DecHundredths(total_pedido(pk)) >= 0

-----------------------------------------------------------------------------
(* Deleting products, services and categories under existing orders.         *)

\* The sum, in hundredths, of cantidad * precio_unitario over the rows S of a
\* line-item table.
RECURSIVE SumaSubtotales(_, _)
SumaSubtotales(table, S) ==
    IF S = {} THEN 0
    ELSE LET i == CHOOSE j \in S : TRUE
         IN  table[i].cantidad * table[i].precio_unitario
                 + SumaSubtotales(table, S \ {i})

\* The total of an order, in hundredths.
Total(pk) == DecHundredths(total_pedido(pk))

\* C25: a successful delete of a product or a service, directly or through
\* the delete of its supplier or of its category, removes every line item
\* that refers to a deleted product or service and keeps the orders; the
\* total of each order goes down by exactly the subtotals of its removed line
\* items, so the total of an order without such line items does not change.
C25_BorrarProductoConPedidos ==
    [][(/\ resp'.op = "admin_delete" /\ resp'.status = "ok"
        /\ resp'.data \in {"productos", "servicios", "empresas", "categorias"})
       => LET P == DOMAIN productos \ DOMAIN productos'
              S == DOMAIN servicios \ DOMAIN servicios'
              IP == {i \in DOMAIN items_productos : items_productos[i].producto \in P}
              IS == {i \in DOMAIN items_servicios : items_servicios[i].servicio \in S}
          IN  /\ DOMAIN items_productos' \cap IP = {}
              /\ DOMAIN items_servicios' \cap IS = {}
              /\ pedidos' = pedidos
              /\ \A pk \in DOMAIN pedidos :
                    Total(pk)' = Total(pk)
                        - SumaSubtotales(items_productos,
                                         {i \in IP : items_productos[i].pedido = pk})
                        - SumaSubtotales(items_servicios,
                                         {i \in IS : items_servicios[i].pedido = pk})]_vars

\* The first supplier has just been deleted with its product and its service:
\* the first order lost both of its line items and its total is 0, the second
\* order still has its line item and its total of 15.00.
C25_Witness ==
    /\ resp.op = "admin_delete" /\ resp.data = "empresas"
    /\ resp.pk = 1 /\ resp.status = "ok"
    /\ DOMAIN productos = {2} /\ servicios = <<>>
    /\ DOMAIN pedidos = {1, 2}
    /\ RelatedItems(items_productos, 1) = {} /\ RelatedItems(items_servicios, 1) = {}
    /\ Total(1) = 0
    /\ RelatedItems(items_productos, 2) # {}
    /\ Total(2) = 1500

\* C26: a successful delete of a category removes the category and every
\* product whose categoria is that category, with the characteristics and the
\* line items of those products; the products without category or with
\* another category are left as they were.
C26_BorrarCategoria ==
    [][(resp'.op = "admin_delete" /\ resp'.data = "categorias" /\ resp'.status = "ok")
       => LET c == resp'.pk
              P == {k \in DOMAIN productos : productos[k].categoria = c}
          IN  /\ c \in categorias
              /\ categorias' = categorias \ {c}
              /\ productos' = Delete(productos, P)
              /\ caracteristicas' =
                     Delete(caracteristicas,
                            {k \in DOMAIN caracteristicas :
                                caracteristicas[k].producto_hardware \in P})
              /\ items_productos' =
                     Delete(items_productos,
                            {k \in DOMAIN items_productos : items_productos[k].producto \in P})]_vars

\* The first category has just been deleted with its product; the second
\* product, without category, its characteristic and its line item are still
\* there, and so is the second category.
C26_Witness ==
    /\ resp.op = "admin_delete" /\ resp.data = "categorias"
    /\ resp.pk = 1 /\ resp.status = "ok"
    /\ categorias = {2}
    /\ DOMAIN productos = {2} /\ productos[2].categoria = NULL
    /\ \E k \in DOMAIN caracteristicas : caracteristicas[k].producto_hardware = 2
    /\ \E k \in DOMAIN items_productos : items_productos[k].producto = 2

-----------------------------------------------------------------------------
(* The status of an order has no terminal value.                             *)

\* C28: the status update restricts no transition: whatever the estado of an
\* order is, completado and cancelado included, one status update can set it
\* to each of the six values.
C28_SinEstadoTerminal ==
    \A pk \in DOMAIN pedidos : \A e \in SeisEstados :
        ENABLED (/\ PedidoEstadoUpdateView(pk, Some(e))
                 /\ resp'.status = "ok"
                 /\ pedidos'[pk].estado = e)

\* An order that a status update has just set to cancelado, some time after it
\* was created.
C28_Witness ==
    \E pk \in DOMAIN pedidos :
        /\ pedidos[pk].estado = "cancelado"
        /\ now > pedidos[pk].fecha_pedido
        /\ resp = Response("pedido_estado", pk, "ok", {}, Some("cancelado"))

-----------------------------------------------------------------------------
(* Orders and withdrawn products.                                            *)

PedidoFormOps == {"pedido_create", "pedido_update"}

\* The line items of the order pk that refer to a product or a service which
\* is not active.
ItemsInactivos(pk) ==
    {<<"producto", i>> : i \in {j \in RelatedItems(items_productos, pk) :
                                   ~productos[items_productos[j].producto].activo}}
    \cup {<<"servicio", i>> : i \in {j \in RelatedItems(items_servicios, pk) :
                                        ~servicios[items_servicios[j].servicio].activo}}

\* C30: an order create or update is accepted only if every line item it
\* submits and does not mark for deletion refers to an active product or
\* service.  An order with a line item whose product or service has been
\* deactivated since is therefore rejected by every update that keeps that
\* line item, with nothing written, and accepted again once the update
\* removes it.
C30_SoloItemsActivos ==
    /\ [][\A pk \in DOMAIN pedidos' :
            (resp'.op \in PedidoFormOps /\ resp'.status = "ok" /\ resp'.pk = pk)
            => ItemsInactivos(pk)' = {}]_vars
    /\ [][(resp'.op = "pedido_update" /\ resp'.pk \in DOMAIN pedidos
           /\ \E x \in ItemsInactivos(resp'.pk) :
                 IF x[1] = "producto" THEN x[2] \in DOMAIN items_productos'
                 ELSE x[2] \in DOMAIN items_servicios')
          => (resp'.status = "invalid" /\ UNCHANGED store)]_vars
    /\ [](\A pk \in DOMAIN pedidos :
            Cardinality(ItemsInactivos(pk)) = 1
            => ENABLED (/\ ActivosPedidoUpdate
                        /\ resp'.status = "ok" /\ resp'.pk = pk
                        /\ ItemsInactivos(pk)' = {}))

\* An update of an order was rejected on its producto field: the order has a
\* line item for a product that was deactivated after the line item was saved,
\* and a line item for a service that is still offered.
C30_Witness ==
    \E pk \in DOMAIN pedidos :
        /\ resp = Response("pedido_update", pk, "invalid", {"producto"}, <<>>)
        /\ \E i \in RelatedItems(items_productos, pk) :
              ~productos[items_productos[i].producto].activo
        /\ \E i \in RelatedItems(items_servicios, pk) :
              servicios[items_servicios[i].servicio].activo

-----------------------------------------------------------------------------
(* Searching products by their characteristics.                              *)

\* The listing just answered was filtered by a search string only.
SoloBusqueda ==
    /\ resp.op = "producto_list"
    /\ resp.data.filters.tipo = None
    /\ resp.data.filters.categoria = None
    /\ resp.data.filters.empresa = None

\* The product k has a characteristic whose valor contains the text, letter
\* case aside.
ValorContiene(k, text) ==
    \E c \in DOMAIN caracteristicas :
        /\ caracteristicas[c].producto_hardware = k
        /\ icontains(caracteristicas[c].valor, text)

\* C21 as stated: the listing filtered by a search string returns, exactly
\* once, every product that has a characteristic whose valor contains the
\* string.
C21_BusquedaPorValor_Todos ==
    SoloBusqueda =>
        \A k \in DOMAIN productos :
            ValorContiene(k, resp.data.filters.search)
            => (k \in DOMAIN resp.data.productos /\ resp.data.productos[k] = 1)

\* C21: the listing filtered by a search string returns every active product
\* that has at least one characteristic whose valor contains the string,
\* letter case aside, and returns it exactly once however many of its
\* characteristics match.
C21_BusquedaPorValor ==
    SoloBusqueda =>
        \A k \in DOMAIN productos :
            (productos[k].activo /\ ValorContiene(k, resp.data.filters.search))
            => (k \in DOMAIN resp.data.productos /\ resp.data.productos[k] = 1)

\* A search for "AB" has listed, once, a product named "A" with the two
\* characteristics "Ab" and "ab", while the other product is not active.
C21_Witness ==
    /\ SoloBusqueda
    /\ resp.data.filters.search = "AB"
    /\ 1 \in DOMAIN resp.data.productos
    /\ resp.data.productos[1] = 1
    /\ \E c, d \in DOMAIN caracteristicas :
          /\ c # d
          /\ caracteristicas[c].producto_hardware = 1 /\ caracteristicas[c].valor = "Ab"
          /\ caracteristicas[d].producto_hardware = 1 /\ caracteristicas[d].valor = "ab"
    /\ ~productos[2].activo

====
